---------------------------- MODULE Spec2Model ----------------------------
(***************************************************************************)
(* Model of cling's ASTNodeEraser (interpreter/cling/lib/Interpreter/      *)
(* ASTNodeEraser.cpp): ASTNodeEraser::RevertTransaction and the            *)
(* DeclReverter visitor it drives.                                         *)
(*                                                                         *)
(* The reverter is single threaded.  Its call tree is modelled by a stack  *)
(* of pending operations (todo): each action executes the operation on     *)
(* top of the stack and pushes the calls that operation makes, in the      *)
(* order the code makes them.                                              *)
(***************************************************************************)
EXTENDS Integers, Sequences, FiniteSets, TLC

(***************************************************************************)
(* Bounds of the model.                                                    *)
(***************************************************************************)
\* length of the redeclaration chain of the variable x
ChainLen == 3
\* largest number of declaration groups recorded in the transaction
MaxEntries == 2
\* number of RevertTransaction calls made on the transaction
MaxReverts == 2
\* number of specializations of the function template ft
NumSpecs == 3

Null == "null"
TU == "TU"

(***************************************************************************)
(* The declaration graph the transaction was accepted into.                *)
(*   extern int x; ... int x = init();            (ChainLen declarations)  *)
(*   typedef int a, b;                                                     *)
(*   int f(double);                       (f0, an overload of f)           *)
(*   enum E { e1 };                                                        *)
(*   struct S;                            (S0, declared before S)          *)
(*   namespace N { T n = ...; struct R { public: R(); ~R(); }; struct R; } *)
(*                   (R2 redeclares R; the injected class name RI of R is  *)
(*                   linked right after R in the redeclaration chain)      *)
(*   int f(int p) { static int s; int l; ... }                             *)
(*   template <typename T> T ft() { T t; ... }   (FT, its templated        *)
(*                        function ftd with the local variable t,          *)
(*                        and NumSpecs specializations i1, i2 ...: implicit*)
(*                        instantiations, but for the last one, which is   *)
(*                        declared as  template <> long ft<long>();  )     *)
(*   template <typename T> struct ct;    (CT, its templated record ctd,    *)
(*                   and NumSpecs specializations c1, c2 ... that were     *)
(*                   declared and not defined, as for ct<int>* q; the last *)
(*                   one is declared as  template <> struct ct<long>;  )   *)
(*   template <> long ft<long>();        (ir redeclares the last           *)
(*                   specialization of ft, its canonical declaration)      *)
(*   template <> struct ct<long>;        (cr redeclares the last           *)
(*                   specialization of ct, its canonical declaration)      *)
(*   struct S { };   (its injected class name SI is linked right before S  *)
(*                   in the redeclaration chain: S0 <- SI <- S)            *)
(*   extern int y;  extern "C++" { extern int y; }     (y1 and y2: y2 is   *)
(*                   declared in the linkage specification L, a            *)
(*                   transparent context)                                  *)
(***************************************************************************)
XNames == <<"x1", "x2", "x3", "x4", "x5">>
XChain == SubSeq(XNames, 1, ChainLen)
XSet == {XChain[i] : i \in 1..ChainLen}

SpecNames == <<"i1", "i2", "i3", "i4", "i5">>
SpecSeq == SubSeq(SpecNames, 1, NumSpecs)
SpecSet == {SpecSeq[i] : i \in 1..NumSpecs}

ClassSpecNames == <<"c1", "c2", "c3", "c4", "c5">>
ClassSpecSeq == SubSeq(ClassSpecNames, 1, NumSpecs)
ClassSpecSet == {ClassSpecSeq[i] : i \in 1..NumSpecs}

Range(s) == {s[i] : i \in DOMAIN s}

Others ==
  {"a", "b", "f0", "E", "e1", "N", "n", "R", "RI", "acc", "ctor", "dtor", "f", "p",
   "s", "l", "FT", "ftd", "t", "CT", "ctd", "y1", "y2", "R2", "S0", "S", "SI",
   "ir", "cr"}
DeclIds == XSet \cup Others \cup SpecSet \cup ClassSpecSet
NumDecls == Cardinality(DeclIds)

\* clang::Decl::getKind
Kind(d) ==
  CASE d \in XSet -> "Var"
    [] d \in {"a", "b"} -> "Typedef"
    [] d = "E" -> "Enum"
    [] d = "e1" -> "EnumConstant"
    [] d = "N" -> "Namespace"
    [] d \in {"n", "s", "l", "t", "y1", "y2"} -> "Var"
    [] d \in {"R", "RI", "R2", "S0", "S", "SI", "ctd"} -> "CXXRecord"
    [] d = "acc" -> "AccessSpec"
    [] d = "ctor" -> "CXXConstructor"
    [] d = "dtor" -> "CXXDestructor"
    [] d \in {"f", "f0", "ftd", "ir"} \cup SpecSet -> "Function"
    [] d = "p" -> "ParmVar"
    [] d = "FT" -> "FunctionTemplate"
    [] d = "CT" -> "ClassTemplate"
    [] d \in ClassSpecSet \cup {"cr"} -> "ClassTemplateSpecialization"

\* NamedDecl::getDeclName: empty (Null) for declarations without a name
getDeclName(d) ==
  CASE d \in XSet -> "x"
    [] d \in {"R", "RI", "R2"} -> "R"
    [] d \in {"S0", "S", "SI"} -> "S"
    [] d \in {"y1", "y2"} -> "y"
    [] d = "acc" -> Null
    [] d = "ctor" -> "R::R"
    [] d = "dtor" -> "R::~R"
    [] d = "f0" -> "f"
    [] d \in {"FT", "ftd", "ir"} \cup SpecSet -> "ft"
    [] d \in {"CT", "ctd", "cr"} \cup ClassSpecSet -> "ct"
    [] OTHER -> d

\* NamedDecl::getIdentifier: null for unnamed declarations and for names that
\* are not identifiers (constructors, destructors)
getIdentifier(d) ==
  IF d \in {"acc", "ctor", "dtor"} THEN Null ELSE getDeclName(d)

\* Decl::getDeclContext (semantic context)
getDeclContext(d) ==
  CASE d \in {"n", "R", "R2"} -> "N"
    [] d = "SI" -> "S"
    [] d = "e1" -> "E"
    [] d \in {"RI", "acc", "ctor", "dtor"} -> "R"
    [] d \in {"p", "s", "l"} -> "f"
    [] d = "t" -> "ftd"
    [] d = "y2" -> "L"
    [] OTHER -> TU

\* Decl::getLexicalDeclContext: every declaration of the graph is written
\* inside its semantic context
getLexicalDeclContext(d) == getDeclContext(d)

\* DeclContext::isTransparentContext: an unscoped enumeration and a linkage
\* specification are
isTransparentContext(dc) == dc \in {"E", "L"}

\* DeclContext::getLookupParent
getLookupParent(dc) == IF dc = TU THEN TU ELSE getDeclContext(dc)

\* DeclContext::isDependentContext: the patterns of the two templates are
isDependentContext(dc) == dc \in {"ftd", "ctd"}

isInjectedClassName(d) == d \in {"RI", "SI"}

\* FunctionDecl::isFunctionTemplateSpecialization
isFunctionTemplateSpecialization(d) == d \in SpecSet \cup {"ir"}
\* FunctionTemplateSpecializationInfo::getTemplate
getTemplate(d) == "FT"
\* TemplateDecl::getTemplatedDecl
getTemplatedDecl(d) == IF d = "CT" THEN "ctd" ELSE "ftd"
isStaticLocal(d) == d = "s"

\* the position of a declaration in acceptance order
AcceptSeq ==
  XChain \o
  <<"a", "b", "f0", "y1", "S0", "E", "e1", "N", "n", "R", "RI", "acc", "ctor", "dtor", "R2",
    "f", "p", "s", "l", "FT", "ftd", "t">> \o SpecSeq \o <<"CT", "ctd">> \o ClassSpecSeq
  \o <<"ir", "cr", "S", "SI", "y2">>
AcceptPos(d) == CHOOSE i \in DOMAIN AcceptSeq : AcceptSeq[i] = d

\* the declarations nested in a context, in declaration order; the templated
\* declarations and the implicit instantiations are in no declaration list,
\* the explicitly declared specializations are in the list of the context
\* they are written in
InitDecls(dc) ==
  CASE dc = TU -> XChain \o <<"a", "b", "f0", "y1", "S0", "E", "N", "f", "FT", SpecSeq[NumSpecs],
                             "CT", ClassSpecSeq[NumSpecs], "ir", "cr", "S">>
    [] dc = "L" -> <<"y2">>
    [] dc = "E" -> <<"e1">>
    [] dc = "N" -> <<"n", "R", "R2">>
    [] dc = "S" -> <<"SI">>
    [] dc = "R" -> <<"RI", "acc", "ctor", "dtor">>
    [] dc = "f" -> <<"p", "s", "l">>
    [] dc = "ftd" -> <<"t">>
    [] OTHER -> <<>>

\* the declarations that are DeclContexts, and the translation unit
Contexts ==
  {TU, "L", "E", "N", "R", "R2", "S0", "S", "f", "f0", "ctor", "dtor", "ftd", "ctd", "ir", "cr"}
  \cup SpecSet \cup ClassSpecSet

RECURSIVE Descendants(_)
Descendants(dc) ==
  Range(InitDecls(dc)) \cup UNION {Descendants(c) : c \in Range(InitDecls(dc))}

\* the declaration groups HandleTopLevelDecl saw, in acceptance order
Groups ==
  [i \in 1..ChainLen |-> <<XChain[i]>>]
  \o << <<"a", "b">>, <<"E">>, <<"N">>, <<"f">>, <<"FT">>, <<"CT">>, <<"S">>, <<"y2">>,
        <<"ir">>, <<"cr">> >>

(***************************************************************************)
(* Source files.  File identifiers are numbers; 0 is the invalid FileID.   *)
(***************************************************************************)
Files == {0, 1, 2, 3}
\* SM.getFileID(SM.getSpellingLoc(D->getLocStart()))
FileOfDecl(d) ==
  CASE d = XChain[1] -> 1
    [] d \in XSet -> 2
    [] d \in {"a", "b", "f0"} -> 0
    [] OTHER -> 3

(***************************************************************************)
(* Redeclaration chains (clang::Redeclarable).  A node's link either       *)
(* points to the previous declaration, or, in the first declaration of     *)
(* the chain, to the latest one.                                           *)
(***************************************************************************)
PreviousDeclLink(d) == [latest |-> FALSE, next |-> d]
LatestDeclLink(d) == [latest |-> TRUE, next |-> d]

InitRedeclLink ==
  [d \in DeclIds |->
    CASE d = XChain[1] -> LatestDeclLink(XChain[ChainLen])
      [] d \in XSet -> PreviousDeclLink(XChain[AcceptPos(d) - 1])
      [] d = "R" -> LatestDeclLink("R2")
      [] d = "RI" -> PreviousDeclLink("R")
      [] d = "R2" -> PreviousDeclLink("RI")
      [] d = "S0" -> LatestDeclLink("S")
      [] d = "SI" -> PreviousDeclLink("S0")
      [] d = "S" -> PreviousDeclLink("SI")
      [] d = "y1" -> LatestDeclLink("y2")
      [] d = "y2" -> PreviousDeclLink("y1")
      [] d = SpecSeq[NumSpecs] -> LatestDeclLink("ir")
      [] d = "ir" -> PreviousDeclLink(SpecSeq[NumSpecs])
      [] d = ClassSpecSeq[NumSpecs] -> LatestDeclLink("cr")
      [] d = "cr" -> PreviousDeclLink(ClassSpecSeq[NumSpecs])
      [] OTHER -> LatestDeclLink(d)]

\* Redeclarable::getPreviousDecl
getPreviousDecl(link, d) == IF link[d].latest THEN Null ELSE link[d].next

RECURSIVE getFirstDeclFuel(_, _, _)
getFirstDeclFuel(link, d, fuel) ==
  IF getPreviousDecl(link, d) = Null \/ fuel = 0 THEN d
  ELSE getFirstDeclFuel(link, getPreviousDecl(link, d), fuel - 1)

\* Redeclarable::getFirstDecl
getFirstDecl(link, d) == getFirstDeclFuel(link, d, NumDecls)

\* Redeclarable::getMostRecentDecl
getMostRecentDecl(link, d) == link[getFirstDecl(link, d)].next

\* Redeclarable::setPreviousDecl
setPreviousDecl(link, d, prev) ==
  IF prev = Null
  THEN [link EXCEPT ![d] = LatestDeclLink(d)]
  ELSE LET First == getFirstDecl(link, prev)
           MostRecent == link[First].next
           l1 == [link EXCEPT ![d] = PreviousDeclLink(MostRecent)]
       IN [l1 EXCEPT ![First] = LatestDeclLink(d)]

(***************************************************************************)
(* The executable image (the transaction's llvm::Module) and the           *)
(* execution engine's global mapping.                                      *)
(***************************************************************************)
GlueX == "__cxx_global_var_init"
GlueN == "__cxx_global_var_init1"
GlobalInit == "_GLOBAL__I_a"
Artifacts ==
  {"x", "_ZN1N1nE", "f", "f.s", "_ZN1N1RC1Ev", "_ZN1N1RC2Ev", "_ZN1N1RD1Ev",
   GlueX, GlueN, GlobalInit}

\* isa<llvm::Function>(GV)
IsFunction(g) == g \notin {"x", "_ZN1N1nE", "f.s"}

\* F->getName().startswith("__cxx_global_var_init")
IsStaticInitName(g) == g \in {GlueX, GlueN}

\* F.hasInternalLinkage()
hasInternalLinkage(g) == g \in {GlueX, GlueN, GlobalInit}

\* The uses in the image: an instruction of function user refers to target.
\*   __cxx_global_var_init stores the initial value of x;
\*   __cxx_global_var_init1 constructs n and registers its destructor;
\*   _GLOBAL__I_a calls both initializers; f reads x and its static local
\*   and constructs a temporary N::R.
InitUses ==
  {[id |-> 1, user |-> GlueX, target |-> "x"],
   [id |-> 2, user |-> GlueN, target |-> "_ZN1N1nE"],
   [id |-> 3, user |-> GlueN, target |-> "_ZN1N1nE"],
   [id |-> 4, user |-> GlobalInit, target |-> GlueX],
   [id |-> 5, user |-> GlobalInit, target |-> GlueN],
   [id |-> 6, user |-> "f", target |-> "x"],
   [id |-> 7, user |-> "f", target |-> "f.s"],
   [id |-> 8, user |-> "f", target |-> "_ZN1N1RC1Ev"]}

\* clang::CXXCtorType
CtorTypes == {"Ctor_Complete", "Ctor_Base", "Ctor_CompleteAllocating"}

\* utils::Analyze::maybeMangleDeclName(GD, mangledName)
maybeMangleDeclName(d, ctorType) ==
  CASE d \in XSet -> "x"
    [] d \in {"y1", "y2"} -> "y"
    [] d = "n" -> "_ZN1N1nE"
    [] d = "ctor" /\ ctorType = "Ctor_Complete" -> "_ZN1N1RC1Ev"
    [] d = "ctor" /\ ctorType = "Ctor_Base" -> "_ZN1N1RC2Ev"
    [] d = "ctor" -> "_ZN1N1RC3Ev"
    [] d = "dtor" -> "_ZN1N1RD1Ev"
    [] OTHER -> d

\* a linker name that leaves out the function's name for a static local
LinkerNameOfVariableOnly(d, ctorType) == maybeMangleDeclName(d, ctorType)

\* The linker name MaybeRemoveDeclFromModule looks up: the mangled name, and
\* for a static local the name of the function, ".", and the mangled name.
LinkerName(d, ctorType) ==
  IF Kind(d) \in {"Var", "ParmVar"} /\ isStaticLocal(d)
  THEN maybeMangleDeclName(getDeclContext(d), Null) \o "." \o maybeMangleDeclName(d, ctorType)
  ELSE maybeMangleDeclName(d, ctorType)

(***************************************************************************)
(* Macros.  A record of the transaction is an (identifier, directive)      *)
(* pair; the directive of M2 carries no MacroInfo.                         *)
(***************************************************************************)
MacroIds == {"M1", "M2"}
MacroII(m) == IF m = "M1" THEN "FOO" ELSE "BAR"
\* MD->getMacroInfo() != 0
getMacroInfo(m) == m = "M1"
\* SM.getFileID(SM.getSpellingLoc(MD->getLocation()))
FileOfMacro(m) == IF m = "M1" THEN 3 ELSE 1

\* Transaction::getBufferFID: the first buffer the transaction introduced
getBufferFID == 2

(***************************************************************************)
(* The state.                                                              *)
(***************************************************************************)
\* SourceManager: the file has a FileEntry (ContentCache::ContentsEntry); the
\* buffer of the transaction's input line has none
HasFileEntry(f) == f # getBufferFID

VARIABLES
  ndebug,         \* the build: TRUE when assertions are compiled out (NDEBUG)
  tState,         \* Transaction::getState
  tModule,        \* Transaction::getModule is not null
  tDecls,         \* the transaction's (call, declaration group) entries
  tMacros,        \* the transaction's macro records
  decls,          \* DeclContext: the declarations of each context
  lookup,         \* DeclContext: the StoredDeclsMap of each context
  redeclLink,     \* Redeclarable::RedeclLink of each declaration
  tuScope,        \* the declarations in the translation unit's Scope
  idResolver,     \* the declarations on Sema::IdResolver's chains
  deallocated,    \* the declarations handed to ASTContext::Deallocate
  module,         \* the global values of the llvm::Module
  uses,           \* the uses between global values
  mapped,         \* the global values the execution engine maps to an address
  specs,          \* the specializations of ft: the vector's storage and size
  classSpecs,     \* the specialization set of the class template
  macros,         \* Preprocessor: the (identifier, directive) pairs defined
  filesToUncache, \* DeclReverter::m_FilesToUncache
  contentCache,   \* SourceManager: the files with cached content
  fileSizes,      \* FileManager: the files whose FileEntry records a size
  pending,        \* Sema: pending instantiations are queued
  diagnostics,    \* Sema: diagnostics are accumulated
  todo,           \* the pending operations of the running RevertTransaction
  Successful,     \* RevertTransaction's local Successful
  pc,             \* "idle", "running" or "aborted"
  fault,          \* "none", "assert" (assertion failed) or "ub"
  rets            \* the values the RevertTransaction calls returned

vars ==
  <<ndebug, tState, tModule, tDecls, tMacros, decls, lookup, redeclLink, tuScope,
    idResolver, deallocated, module, uses, mapped, specs, classSpecs, macros,
    filesToUncache, contentCache, fileSizes, pending, diagnostics, todo, Successful, pc, fault, rets>>

\* Transaction::ConsumerCallInfo
kCCIHandleTopLevelDecl == "kCCIHandleTopLevelDecl"
kCCIHandleTagDeclDefinition == "kCCIHandleTagDeclDefinition"
kCCIHandleCXXImplicitFunctionInstantiation == "kCCIHandleCXXImplicitFunctionInstantiation"

\* Transaction::State
kCollecting == "kCollecting"
kCommitted == "kCommitted"
kRolledBack == "kRolledBack"
kRolledBackWithErrors == "kRolledBackWithErrors"

(***************************************************************************)
(* StoredDeclsList: absent from the map, null, a single declaration, or a  *)
(* vector of declarations.                                                 *)
(***************************************************************************)
Absent == [st |-> "absent", v |-> <<>>]
NullList == [st |-> "null", v |-> <<>>]
Single(d) == [st |-> "single", v |-> <<d>>]
Vector(v) == [st |-> "vector", v |-> v]

Names ==
  {"x", "y", "a", "b", "f", "E", "e1", "N", "n", "R", "R::R", "R::~R", "ft", "ct", "S"}

\* DeclContext::getLookupPtr is null for a function, for an enumeration,
\* for a linkage specification and for a record that is only declared
HasLookupMap(dc) == dc \in {TU, "N", "R", "S"}

InitLookup ==
  [dc \in {c \in Contexts : HasLookupMap(c)} |->
    [nm \in Names |->
      CASE dc = TU /\ nm = "x" -> Single(XChain[ChainLen])
        [] dc = TU /\ nm = "y" -> Single("y2")
        [] dc = TU /\ nm \in {"a", "b", "E", "e1", "N", "S"} -> Single(nm)
        [] dc = TU /\ nm = "f" -> Vector(<<"f0", "f">>)
        [] dc = TU /\ nm = "ft" -> Single("FT")
        [] dc = TU /\ nm = "ct" -> Single("CT")
        [] dc = "N" /\ nm = "n" -> Single("n")
        [] dc = "N" /\ nm = "R" -> Single("R2")
        [] dc = "R" /\ nm = "R" -> Single("RI")
        [] dc = "S" /\ nm = "S" -> Single("SI")
        [] dc = "R" /\ nm = "R::R" -> Single("ctor")
        [] dc = "R" /\ nm = "R::~R" -> Single("dtor")
        [] OTHER -> Absent]]

\* the implicit instantiations a transaction may record: a use of the
\* function template in the transaction's code instantiated a specialization
Instantiations == << <<SpecSeq[1]>> >>

\* the top-level groups and instantiations a transaction may hold: at most
\* MaxEntries of them; the redeclarations of the specializations are written
\* in transactions of their own, which hold nothing else
EntryChoices ==
  {sel \in SUBSET (1..(Len(Groups) + Len(Instantiations))) :
     /\ Cardinality(sel) <= MaxEntries
     /\ \A redecls \in {{i \in sel : i <= Len(Groups) /\ Groups[i] \in {<<"ir">>, <<"cr">>}}} :
          redecls = {} \/ redecls = sel}

\* the tag definitions completed inside a top-level group: the collector
\* records each under HandleTagDeclDefinition before the group itself
TagDefinitionsIn(group) ==
  CASE group = <<"E">> -> <<"E">>
    [] group = <<"N">> -> <<"R">>
    [] group = <<"S">> -> <<"S">>
    [] OTHER -> <<>>

\* the entries of the transaction, in acceptance order
RECURSIVE EntriesFrom(_, _)
EntriesFrom(sel, i) ==
  IF i > Len(Groups) + Len(Instantiations) THEN <<>>
  ELSE (IF i \notin sel THEN <<>>
        ELSE IF i > Len(Groups)
        THEN << [m_Call |-> kCCIHandleCXXImplicitFunctionInstantiation,
                 m_DGR |-> Instantiations[i - Len(Groups)]] >>
        ELSE [k \in DOMAIN TagDefinitionsIn(Groups[i]) |->
                [m_Call |-> kCCIHandleTagDeclDefinition,
                 m_DGR |-> <<TagDefinitionsIn(Groups[i])[k]>>]]
             \o << [m_Call |-> kCCIHandleTopLevelDecl, m_DGR |-> Groups[i]] >>)
       \o EntriesFrom(sel, i + 1)

Init ==
  /\ ndebug \in BOOLEAN
  /\ \E c \in {<<kCommitted, TRUE>>, <<kCommitted, FALSE>>, <<kCollecting, TRUE>>} :
       tState = c[1] /\ tModule = c[2]
  /\ \E sel \in EntryChoices : tDecls = EntriesFrom(sel, 1)
  /\ tMacros \in {<<>>, <<"M1">>, <<"M1", "M2">>}
  /\ decls = [dc \in Contexts |-> InitDecls(dc)]
  /\ lookup = InitLookup
  /\ redeclLink = InitRedeclLink
  /\ tuScope = {XChain[ChainLen], "y2", "a", "b", "f0", "E", "e1", "N", "f", "FT", "CT", "S"}
  /\ idResolver = {XChain[ChainLen], "y2", "a", "b", "f0", "E", "e1", "N", "f", "FT", "CT", "S"}
  /\ deallocated = {}
  /\ module = Artifacts
  /\ uses = InitUses
  /\ mapped = Artifacts
  /\ specs = [buf |-> SpecSeq, size |-> NumSpecs]
  /\ classSpecs = [buf |-> ClassSpecSeq, size |-> NumSpecs]
  /\ macros = {<<MacroII(m), m>> : m \in MacroIds}
  /\ filesToUncache = {}
  /\ contentCache = Files \ {0}
  /\ fileSizes = {f \in Files \ {0} : HasFileEntry(f)}
  /\ pending = TRUE
  /\ diagnostics = TRUE
  /\ todo = <<>>
  /\ Successful = TRUE
  /\ pc = "idle"
  /\ fault = "none"
  /\ rets = <<>>

(***************************************************************************)
(* Helpers of the visitor.                                                 *)
(***************************************************************************)
\* a pending call: the operation, the declaration or global value it is
\* applied to, the constructor type or macro (x) and the use (u); a loop
\* keeps its iterator in u and its end iterator in e
Op(op, d, x, u) == [op |-> op, d |-> d, x |-> x, u |-> u, e |-> 0]
LoopOp(op, d, I, E) == [op |-> op, d |-> d, x |-> Null, u |-> I, e |-> E]

Reverse(s) == [i \in DOMAIN s |-> s[Len(s) + 1 - i]]

RECURSIVE Flatten(_)
Flatten(ss) == IF ss = <<>> THEN <<>> ELSE Head(ss) \o Flatten(Tail(ss))

\* DeclContext::getPrimaryContext: every context of the graph is declared once
getPrimaryContext(dc) == dc

\* an accumulation that takes the file of every location
CollectAnyFile(files, fid) == files \cup {fid}

\* DeclReverter::CollectFilesToUncache
CollectFilesToUncache(files, fid) ==
  IF fid # 0 /\ fid >= getBufferFID /\ fid \notin files
  THEN files \cup {fid}
  ELSE files

\* DeclContext::containsDecl
containsDecl(ds, dc, d) == d \in Range(ds[dc])

\* DeclContext::removeDecl: detaches the declaration from the child list
removeDecl(ds, dc, d) ==
  [ds EXCEPT ![dc] = SelectSeq(ds[dc], LAMBDA e : e # d)]

\* a visitor that refuses to erase a declaration without an identifier
VisitDeclRefusesUnnamed(d) ==
  IF getIdentifier(d) = Null
  THEN [files |-> filesToUncache, decls |-> decls, deallocated |-> deallocated, ret |-> FALSE]
  ELSE [files |-> CollectFilesToUncache(filesToUncache, FileOfDecl(d)),
        decls |-> [dc \in DOMAIN decls |-> SelectSeq(decls[dc], LAMBDA e : e # d)],
        deallocated |-> deallocated \cup {d},
        ret |-> TRUE]

\* DeclReverter::VisitDecl: the files to uncache, the child lists and the
\* deallocated declarations after the call, and the value returned
VisitDeclResult(d) ==
  LET DC == getLexicalDeclContext(d)
      Succ == TRUE
  IN [files |-> CollectFilesToUncache(filesToUncache, FileOfDecl(d)),
      decls |-> IF containsDecl(decls, DC, d) THEN removeDecl(decls, DC, d) ELSE decls,
      deallocated |-> IF Succ THEN deallocated \cup {d} ELSE deallocated,
      ret |-> Succ]

\* the loop of VisitNamedDecl over a StoredDeclsList vector: the iterators I
\* and E are taken before the loop, and StoredDeclsList::remove erases the
\* first occurrence of ND from the vector while the loop runs.  buf is the
\* vector's storage (n slots), size its current size.
RECURSIVE RemoveLoop(_, _, _, _, _)
RemoveLoop(buf, size, i, n, nd) ==
  IF i > n THEN [v |-> SubSeq(buf, 1, size), bad |-> FALSE]
  ELSE IF buf[i] # nd THEN RemoveLoop(buf, size, i + 1, n, nd)
  ELSE IF \A j \in 1..size : buf[j] # nd
       THEN [v |-> SubSeq(buf, 1, size), bad |-> TRUE]
       ELSE LET j == CHOOSE k \in 1..size : buf[k] = nd /\ \A h \in 1..(k - 1) : buf[h] # nd
                nb == [k \in 1..n |-> IF k >= j /\ k < size THEN buf[k + 1] ELSE buf[k]]
            IN RemoveLoop(nb, size - 1, i + 1, n, nd)

\* a cleanup that handles the single-declaration entry only and leaves an
\* overload vector as it is
CleanupEntrySingleOnly(e, nd) ==
  IF e.st = "single" /\ e.v[1] = nd THEN [e |-> Absent, bad |-> FALSE]
  ELSE [e |-> e, bad |-> FALSE]

\* DeclReverter::VisitNamedDecl, "Cleanup the lookup tables": the entry of
\* the declaration's name after the cleanup
CleanupEntry(e, nd) ==
  LET removed ==
        IF e.st = "single" /\ e.v[1] = nd THEN [e |-> NullList, bad |-> FALSE]
        ELSE IF e.st = "vector"
             THEN LET r == RemoveLoop(e.v, Len(e.v), 1, Len(e.v), nd)
                  IN [e |-> Vector(r.v), bad |-> r.bad]
             ELSE [e |-> e, bad |-> FALSE]
  IN IF removed.e.st = "null" \/ (removed.e.st = "vector" /\ Len(removed.e.v) = 0)
     THEN [e |-> Absent, bad |-> removed.bad]
     ELSE removed

\* the context whose lookup table VisitNamedDecl cleans: the nearest
\* enclosing context that is not transparent
RECURSIVE LookupContext(_)
LookupContext(dc) ==
  IF isTransparentContext(dc) THEN LookupContext(getLookupParent(dc)) ELSE dc

\* Sema::getScopeForContext: only the translation unit's scope is open
getScopeForContext(dc) == IF dc = TU THEN TU ELSE Null

\* DeclReverter::VisitNamedDecl
VisitNamedDeclResult(nd) ==
  LET base == VisitDeclResult(nd)
      DC == LookupContext(getDeclContext(nd))
      anonymous == getIdentifier(nd) = Null
      Map == getPrimaryContext(DC)
      hasMap == HasLookupMap(Map)
      name == getDeclName(nd)
      cleaned == IF ~anonymous /\ hasMap /\ lookup[Map][name].st # "absent"
                 THEN CleanupEntry(lookup[Map][name], nd)
                 ELSE [e |-> IF hasMap /\ name \in Names THEN lookup[Map][name] ELSE Absent,
                       bad |-> FALSE]
  IN [files |-> base.files,
      decls |-> base.decls,
      deallocated |-> base.deallocated,
      tuScope |-> IF ~anonymous /\ base.ret /\ getScopeForContext(DC) # Null
                  THEN tuScope \ {nd} ELSE tuScope,
      idResolver |-> IF ~anonymous /\ base.ret THEN idResolver \ {nd} ELSE idResolver,
      lookup |-> IF ~anonymous /\ hasMap
                 THEN [lookup EXCEPT ![Map][name] = cleaned.e] ELSE lookup,
      \* StoredDeclsList::remove was called for a declaration the list lacks
      bad |-> cleaned.bad,
      \* the assertions "Lookup entry still exists." (compiled out by NDEBUG)
      stillThere |-> ~anonymous /\ hasMap /\ nd \in Range(cleaned.e.v),
      ret |-> base.ret]

\* DeclReverter::VisitRedeclarable, "Collect the redeclarations, except the
\* one we remove": from PrevDecl backwards, newest first
RECURSIVE CollectPrevDecls(_, _, _, _)
CollectPrevDecls(link, PrevDecl, R, fuel) ==
  IF PrevDecl = Null \/ fuel = 0 THEN <<>>
  ELSE (IF PrevDecl # R THEN <<PrevDecl>> ELSE <<>>)
       \o CollectPrevDecls(link, getPreviousDecl(link, PrevDecl), R, fuel - 1)

PrevDeclsOf(link, R) ==
  CollectPrevDecls(link, getMostRecentDecl(link, R), R, NumDecls)

\* DeclReverter::VisitRedeclarable, the update of the lookup entry: the first
\* occurrence of ND is replaced by the newest remaining redeclaration, unless
\* that one is in the list already
UpdateLookupEntry(e, nd, newest) ==
  IF e.st \in {"single", "vector"} /\ nd \in Range(e.v) /\ newest \notin Range(e.v)
  THEN LET pos == CHOOSE k \in DOMAIN e.v : e.v[k] = nd /\ \A h \in 1..(k - 1) : e.v[h] # nd
       IN [e EXCEPT !.v = [e.v EXCEPT ![pos] = newest]]
  ELSE e

\* a relinking loop that stops one link early and leaves the oldest
\* survivor's previous link as it was
RECURSIVE RelinkButOldest(_, _, _)
RelinkButOldest(link, P, i) ==
  IF i <= 2 THEN link
  ELSE RelinkButOldest(setPreviousDecl(link, P[i - 1], P[i]), P, i - 1)

\* DeclReverter::VisitRedeclarable, the loop "0 <- A <- B <- C" over
\* PrevDecls with 0 appended: i runs from the last index down to 1
RECURSIVE Relink(_, _, _)
Relink(link, P, i) ==
  IF i <= 1 THEN link
  ELSE Relink(setPreviousDecl(link, P[i - 1], P[i]), P, i - 1)

\* DeclReverter::VisitRedeclarable(R, DC)
VisitRedeclarableResult(R, DC) ==
  LET PrevDecls == PrevDeclsOf(redeclLink, R)
      Map == getPrimaryContext(DC)
      Name == getDeclName(R)
  IN IF PrevDecls = <<>>
     THEN [link |-> redeclLink, lookup |-> lookup, ret |-> TRUE]
     ELSE [link |-> Relink(redeclLink, PrevDecls \o <<Null>>, Len(PrevDecls) + 1),
           lookup |-> IF HasLookupMap(Map) /\ Name # Null
                      THEN [lookup EXCEPT ![Map][Name] =
                              UpdateLookupEntry(lookup[Map][Name], R, PrevDecls[1])]
                      ELSE lookup,
           ret |-> TRUE]

\* StaticVarCollector: the static local variables declared in FD's body
StaticVarCollector(fd) == IF fd = "f" THEN <<"s">> ELSE <<>>

\* DeclReverter::VisitRecordDecl, the search for the injected class name
\* next to RD in its redeclaration chain
RECURSIVE FindInjectedAfter(_, _, _, _)
FindInjectedAfter(link, cur, RD, fuel) ==
  IF cur = Null \/ fuel = 0 THEN Null
  ELSE IF isInjectedClassName(cur) /\ getPreviousDecl(link, cur) = RD THEN cur
  ELSE FindInjectedAfter(link, getPreviousDecl(link, cur), RD, fuel - 1)

InjectedRDOf(link, RD) ==
  LET prev == getPreviousDecl(link, RD)
  IN IF prev # Null /\ isInjectedClassName(prev) THEN prev
     ELSE FindInjectedAfter(link, getMostRecentDecl(link, RD), RD, NumDecls)

(***************************************************************************)
(* The calls each Visit method makes, in order (DeclVisitor dispatches on  *)
(* the most derived kind and falls back to the base kinds).                *)
(***************************************************************************)
\* a function visitor that unlinks the function before its parameters
FunctionCallsUnlinkFirst(fd) ==
  <<Op("VisitRedeclarable", fd, Null, 0), Op("VisitDeclContext", fd, Null, 0),
    Op("VisitNamedDecl", fd, Null, 0)>>
  \o (IF isFunctionTemplateSpecialization(fd)
      THEN <<Op("removeSpecialization", fd, Null, 0)>> ELSE <<>>)

\* DeclReverter::VisitFunctionDecl without the module cleanup: the context
\* first, then the redeclaration chain, then VisitDeclaratorDecl, then the
\* removal of a function template specialization from its template
FunctionCalls(fd) ==
  <<Op("VisitDeclContext", fd, Null, 0), Op("VisitRedeclarable", fd, Null, 0),
    Op("VisitNamedDecl", fd, Null, 0)>>
  \o (IF isFunctionTemplateSpecialization(fd)
      THEN <<Op("removeSpecialization", fd, Null, 0)>> ELSE <<>>)

\* DeclReverter::VisitFunctionDecl, "Cleanup the module": the function and
\* the static locals of its body, unless FD is a constructor or destructor
FunctionModuleCalls(fd) ==
  IF Kind(fd) \notin {"CXXConstructor", "CXXDestructor"}
  THEN <<Op("MaybeRemoveDeclFromModule", fd, Null, 0)>>
       \o [i \in DOMAIN StaticVarCollector(fd) |->
             Op("MaybeRemoveDeclFromModule", StaticVarCollector(fd)[i], Null, 0)]
  ELSE <<>>

\* a variable visitor that erases the variable without unlinking it from its
\* redeclaration chain
VarCallsNoUnlink(vd) ==
  (IF Kind(vd) # "ParmVar" /\ ~isDependentContext(getDeclContext(vd))
   THEN <<Op("MaybeRemoveDeclFromModule", vd, Null, 0)>> ELSE <<>>)
  \o <<Op("VisitNamedDecl", vd, Null, 0)>>

\* a variable visitor that unlinks the variable from its redeclaration chain
\* before it unlinks the generated code
VarCallsChainFirst(vd) ==
  <<Op("VisitRedeclarable", vd, Null, 0)>>
  \o (IF Kind(vd) # "ParmVar" /\ ~isDependentContext(getDeclContext(vd))
      THEN <<Op("MaybeRemoveDeclFromModule", vd, Null, 0)>> ELSE <<>>)
  \o <<Op("VisitNamedDecl", vd, Null, 0)>>

\* DeclReverter::VisitVarDecl
VarCalls(vd) ==
  (IF Kind(vd) # "ParmVar" /\ ~isDependentContext(getDeclContext(vd))
   THEN <<Op("MaybeRemoveDeclFromModule", vd, Null, 0)>> ELSE <<>>)
  \o <<Op("VisitRedeclarable", vd, Null, 0), Op("VisitNamedDecl", vd, Null, 0)>>

\* DeclReverter::VisitCXXConstructorDecl
ConstructorCalls(cd) ==
  <<Op("MaybeRemoveDeclFromModule", cd, "Ctor_Complete", 0),
    Op("MaybeRemoveDeclFromModule", cd, "Ctor_Base", 0),
    Op("MaybeRemoveDeclFromModule", cd, "Ctor_CompleteAllocating", 0)>>
  \o FunctionModuleCalls(cd) \o FunctionCalls(cd)

\* a container visitor that erases the container before its members
ContainerCallsParentFirst(d) ==
  <<Op("VisitRedeclarable", d, Null, 0), Op("VisitNamedDecl", d, Null, 0),
    Op("VisitDeclContext", d, Null, 0)>>

\* DeclReverter::VisitNamespaceDecl and DeclReverter::VisitTagDecl
ContainerCalls(d) ==
  <<Op("VisitRedeclarable", d, Null, 0), Op("VisitDeclContext", d, Null, 0),
    Op("VisitNamedDecl", d, Null, 0)>>

\* a record visitor that leaves the injected class name in the chain
RecordCallsRecordOnly(link, rd) ==
  IF isInjectedClassName(rd) THEN <<>> ELSE ContainerCalls(rd)

\* DeclReverter::VisitRecordDecl
RecordCalls(link, rd) ==
  IF isInjectedClassName(rd) THEN <<>>
  ELSE (IF InjectedRDOf(link, rd) # Null
        THEN <<Op("VisitRedeclarable", InjectedRDOf(link, rd), Null, 0)>> ELSE <<>>)
       \o ContainerCalls(rd)

\* DeclReverter::VisitTypedefNameDecl
TypedefCalls(d) ==
  <<Op("VisitRedeclarable", d, Null, 0), Op("VisitNamedDecl", d, Null, 0)>>

\* DeclReverter::VisitFunctionTemplateDecl after the loop over the
\* specializations: VisitRedeclarableTemplateDecl, then VisitFunctionDecl of
\* the templated declaration
FunctionTemplateCalls(FTD) ==
  <<Op("VisitRedeclarable", FTD, Null, 0), Op("VisitNamedDecl", FTD, Null, 0)>>
  \o FunctionModuleCalls(getTemplatedDecl(FTD)) \o FunctionCalls(getTemplatedDecl(FTD))

\* DeclReverter::VisitClassTemplateDecl after the loop over the
\* specializations: VisitRedeclarableTemplateDecl, then Visit of the
\* templated declaration
ClassTemplateCalls(CTD) ==
  <<Op("VisitRedeclarable", CTD, Null, 0), Op("VisitNamedDecl", CTD, Null, 0),
    Op("RevertDecl", getTemplatedDecl(CTD), Null, 0)>>

\* DeclVisitor::Visit
VisitCalls(link, d) ==
  CASE Kind(d) \in {"Var", "ParmVar"} -> VarCalls(d)
    [] Kind(d) \in {"Function", "CXXDestructor"} -> FunctionModuleCalls(d) \o FunctionCalls(d)
    [] Kind(d) = "CXXConstructor" -> ConstructorCalls(d)
    [] Kind(d) \in {"Namespace", "Enum"} -> ContainerCalls(d)
    [] Kind(d) = "EnumConstant" -> <<Op("VisitNamedDecl", d, Null, 0)>>
    [] Kind(d) = "CXXRecord" -> RecordCalls(link, d)
    [] Kind(d) = "Typedef" -> TypedefCalls(d)
    [] Kind(d) = "FunctionTemplate" -> <<Op("VisitFunctionTemplateDecl", d, Null, 0)>>
    [] Kind(d) = "ClassTemplate" -> <<Op("VisitClassTemplateDecl", d, Null, 0)>>
    [] Kind(d) = "ClassTemplateSpecialization" ->
         <<Op("VisitClassTemplateSpecializationDecl", d, Null, 0)>>
    [] OTHER -> <<Op("VisitDecl", d, Null, 0)>>

\* a loop over the declarations that takes the entries from the last to the
\* first and the members of a group from the first to the last
DeclCallsMembersForward(entries) ==
  Flatten([i \in DOMAIN entries |->
    LET e == Reverse(entries)[i]
    IN IF e.m_Call # kCCIHandleTopLevelDecl THEN <<>>
       ELSE Flatten([k \in DOMAIN e.m_DGR |->
              <<Op("RevertDecl", e.m_DGR[k], Null, 0),
                Op("AssertSuccessful", Null, Null, 0)>>])])

\* a loop over the declarations that takes the entries of every call
\* classification
DeclCallsEveryEntry(entries) ==
  Flatten([i \in DOMAIN entries |->
    LET e == Reverse(entries)[i]
    IN Flatten([k \in DOMAIN e.m_DGR |->
         <<Op("RevertDecl", Reverse(e.m_DGR)[k], Null, 0),
           Op("AssertSuccessful", Null, Null, 0)>>])])

\* ASTNodeEraser::RevertTransaction, the loop over the declarations: the
\* entries from the last to the first, those of HandleTopLevelDecl only,
\* the members of a group from the last to the first
DeclCalls(entries) ==
  Flatten([i \in DOMAIN entries |->
    LET e == Reverse(entries)[i]
    IN IF e.m_Call # kCCIHandleTopLevelDecl THEN <<>>
       ELSE Flatten([k \in DOMAIN e.m_DGR |->
              <<Op("RevertDecl", Reverse(e.m_DGR)[k], Null, 0),
                Op("AssertSuccessful", Null, Null, 0)>>])])

\* a macro loop that flushes the file caches before the macros are reverted
MacroCallsFlushFirst(ms) ==
  <<Op("Destructor", Null, Null, 0)>> \o
  Flatten([i \in DOMAIN ms |->
    <<Op("RevertMacro", Null, Reverse(ms)[i], 0), Op("AssertSuccessful", Null, Null, 0)>>])

\* ASTNodeEraser::RevertTransaction, the loop over the macros, last first
MacroCalls(ms) ==
  Flatten([i \in DOMAIN ms |->
    <<Op("RevertMacro", Null, Reverse(ms)[i], 0), Op("AssertSuccessful", Null, Null, 0)>>])

\* a reverter that reports every revert as clean
FinalStateAlwaysClean(succ) == kRolledBack

\* the state RevertTransaction leaves the transaction in
FinalState(succ) == IF succ THEN kRolledBack ELSE kRolledBackWithErrors

(***************************************************************************)
(* The actions.                                                            *)
(***************************************************************************)
Running(op) == pc = "running" /\ todo # <<>> /\ Head(todo).op = op

ASTvars == <<decls, lookup, redeclLink, tuScope, idResolver, deallocated>>
IRvars == <<module, uses, mapped>>
Tvars == <<ndebug, tModule, tDecls, tMacros>>

\* ASTNodeEraser::RevertTransaction is called: a DeclReverter is constructed
RevertTransaction ==
  /\ pc = "idle"
  /\ Len(rets) < MaxReverts
  /\ pc' = "running"
  /\ Successful' = TRUE
  /\ filesToUncache' = {}
  /\ todo' = DeclCalls(tDecls) \o MacroCalls(tMacros)
             \o <<Op("Finish", Null, Null, 0), Op("Destructor", Null, Null, 0)>>
  /\ UNCHANGED <<Tvars, specs, classSpecs, tState, ASTvars, IRvars, macros, contentCache, fileSizes, pending,
                 diagnostics, fault, rets>>

\* DeclReverter::RevertDecl: Visit dispatches on the kind of the declaration
RevertDecl ==
  /\ Running("RevertDecl")
  /\ todo' = VisitCalls(redeclLink, Head(todo).d) \o Tail(todo)
  /\ UNCHANGED <<Tvars, specs, classSpecs, tState, ASTvars, IRvars, macros, filesToUncache, contentCache, fileSizes,
                 pending, diagnostics, Successful, pc, fault, rets>>

\* the assertion after each item of RevertTransaction's loops
AssertSuccessful ==
  /\ Running("AssertSuccessful")
  /\ IF ~ndebug /\ ~Successful
     THEN pc' = "aborted" /\ fault' = "assert" /\ todo' = todo
     ELSE pc' = pc /\ fault' = fault /\ todo' = Tail(todo)
  /\ UNCHANGED <<Tvars, specs, classSpecs, tState, ASTvars, IRvars, macros, filesToUncache, contentCache, fileSizes,
                 pending, diagnostics, Successful, rets>>

\* DeclReverter::VisitDecl
VisitDecl ==
  /\ Running("VisitDecl")
  /\ LET r == VisitDeclResult(Head(todo).d)
     IN /\ filesToUncache' = r.files
        /\ decls' = r.decls
        /\ deallocated' = r.deallocated
        /\ Successful' = (r.ret /\ Successful)
  /\ todo' = Tail(todo)
  /\ UNCHANGED <<Tvars, specs, classSpecs, tState, lookup, redeclLink, tuScope, idResolver, IRvars, macros,
                 contentCache, fileSizes, pending, diagnostics, pc, fault, rets>>

\* DeclReverter::VisitNamedDecl
VisitNamedDecl ==
  /\ Running("VisitNamedDecl")
  /\ LET r == VisitNamedDeclResult(Head(todo).d)
     IN /\ filesToUncache' = r.files
        /\ decls' = r.decls
        /\ deallocated' = r.deallocated
        /\ tuScope' = r.tuScope
        /\ idResolver' = r.idResolver
        /\ lookup' = r.lookup
        /\ Successful' = (r.ret /\ Successful)
        /\ IF r.bad \/ (~ndebug /\ r.stillThere)
           THEN /\ pc' = "aborted"
                /\ fault' = IF ndebug THEN "ub" ELSE "assert"
                /\ todo' = todo
           ELSE pc' = pc /\ fault' = fault /\ todo' = Tail(todo)
  /\ UNCHANGED <<Tvars, specs, classSpecs, tState, redeclLink, IRvars, macros, contentCache, fileSizes, pending,
                 diagnostics, rets>>

\* DeclReverter::VisitRedeclarable
VisitRedeclarable ==
  /\ Running("VisitRedeclarable")
  /\ LET R == Head(todo).d
         r == VisitRedeclarableResult(R, getDeclContext(R))
     IN /\ redeclLink' = r.link
        /\ lookup' = r.lookup
        /\ Successful' = (r.ret /\ Successful)
  /\ todo' = Tail(todo)
  /\ UNCHANGED <<Tvars, specs, classSpecs, tState, decls, tuScope, idResolver, deallocated, IRvars, macros,
                 filesToUncache, contentCache, fileSizes, pending, diagnostics, pc, fault, rets>>

\* DeclReverter::VisitDeclContext: the declarations of the context are copied
\* to declsToErase, then each is visited
VisitDeclContext ==
  /\ Running("VisitDeclContext")
  /\ LET declsToErase == decls[Head(todo).d]
     IN todo' = [i \in DOMAIN declsToErase |-> Op("RevertDecl", declsToErase[i], Null, 0)]
                \o Tail(todo)
  /\ UNCHANGED <<Tvars, specs, classSpecs, tState, ASTvars, IRvars, macros, filesToUncache, contentCache, fileSizes,
                 pending, diagnostics, Successful, pc, fault, rets>>

(***************************************************************************)
(* Templates.  The specializations of a function template are kept in a    *)
(* FoldingSetVector: specs.buf is the storage of its vector, of which the  *)
(* first specs.size slots are the vector's elements.                       *)
(***************************************************************************)
\* Redeclarable::isCanonicalDecl: the first declaration of the chain
isCanonicalDecl(link, d) == getFirstDecl(link, d) = d

\* FunctionTemplateDecl::getSpecializations(), the elements of the set
getSpecializations(sp) == SubSeq(sp.buf, 1, sp.size)

\* a removal that clears the set and adds nothing again
clearSpecializations(sp, specialization) == [buf |-> sp.buf, size |-> 0]

\* FunctionTemplateDeclExt::removeSpecialization: the specializations but the
\* one to remove are collected, the set is cleared and the collected ones are
\* added again; the storage behind the new end keeps what it held
removeSpecialization(sp, specialization) ==
  IF sp.size = 0 THEN sp
  ELSE LET IsOther(e) == e # specialization
           specializations == SelectSeq(getSpecializations(sp), IsOther)
       IN [buf |-> [k \in DOMAIN sp.buf |->
                     IF k <= Len(specializations) THEN specializations[k] ELSE sp.buf[k]],
           size |-> Len(specializations)]

\* DeclReverter::VisitFunctionTemplateDecl: spec_begin() and spec_end() are
\* taken when the loop over the specializations starts
VisitFunctionTemplateDecl ==
  /\ Running("VisitFunctionTemplateDecl")
  /\ todo' = <<LoopOp("VisitSpecialization", Head(todo).d, 1, specs.size)>>
             \o FunctionTemplateCalls(Head(todo).d) \o Tail(todo)
  /\ UNCHANGED <<Tvars, specs, classSpecs, tState, ASTvars, IRvars, macros, filesToUncache,
                 contentCache, fileSizes, pending, diagnostics, Successful, pc, fault, rets>>

\* one turn of the loop "for (I = spec_begin(), E = spec_end(); I != E; ++I)
\* Visit(*I)": the iterator reads the slot it points to in the vector's
\* storage, and *I is the most recent declaration of that specialization
VisitSpecialization ==
  /\ Running("VisitSpecialization")
  /\ LET I == Head(todo).u
         E == Head(todo).e
     IN todo' = IF I > E THEN Tail(todo)
                ELSE VisitCalls(redeclLink, getMostRecentDecl(redeclLink, specs.buf[I]))
                     \o <<LoopOp("VisitSpecialization", Head(todo).d, I + 1, E)>>
                     \o Tail(todo)
  /\ UNCHANGED <<Tvars, specs, classSpecs, tState, ASTvars, IRvars, macros, filesToUncache,
                 contentCache, fileSizes, pending, diagnostics, Successful, pc, fault, rets>>

\* DeclReverter::VisitFunctionDecl, the end: a canonical declaration of a
\* function template specialization is removed from its template
RemoveSpecialization ==
  /\ Running("removeSpecialization")
  /\ specs' = IF isCanonicalDecl(redeclLink, Head(todo).d)
              THEN removeSpecialization(specs, Head(todo).d)
              ELSE specs
  /\ todo' = Tail(todo)
  /\ UNCHANGED <<Tvars, classSpecs, tState, ASTvars, IRvars, macros, filesToUncache,
                 contentCache, fileSizes, pending, diagnostics, Successful, pc, fault, rets>>

\* ClassTemplateDeclExt::removeSpecialization: as for a function template,
\* the specializations but the one to remove are collected, the set is
\* cleared and the collected ones are added again
removeClassSpecialization(sp, spec) ==
  IF sp.size = 0 THEN sp
  ELSE LET IsOther(e) == e # spec
           specializations == SelectSeq(getSpecializations(sp), IsOther)
       IN [buf |-> [k \in DOMAIN sp.buf |->
                     IF k <= Len(specializations) THEN specializations[k] ELSE sp.buf[k]],
           size |-> Len(specializations)]

\* DeclReverter::VisitClassTemplateDecl: spec_begin() and spec_end() are
\* taken when the loop over the specializations starts; the template's
\* chain and name follow the loop, then the visit of the templated record
VisitClassTemplateDecl ==
  /\ Running("VisitClassTemplateDecl")
  /\ todo' = <<LoopOp("VisitClassSpecialization", Head(todo).d, 1, classSpecs.size)>>
             \o ClassTemplateCalls(Head(todo).d) \o Tail(todo)
  /\ UNCHANGED <<Tvars, specs, classSpecs, tState, ASTvars, IRvars, macros, filesToUncache,
                 contentCache, fileSizes, pending, diagnostics, Successful, pc, fault, rets>>

\* one turn of the loop of VisitClassTemplateDecl over the specializations
VisitClassSpecialization ==
  /\ Running("VisitClassSpecialization")
  /\ LET I == Head(todo).u
         E == Head(todo).e
     IN todo' = IF I > E THEN Tail(todo)
                ELSE VisitCalls(redeclLink, getMostRecentDecl(redeclLink, classSpecs.buf[I]))
                     \o <<LoopOp("VisitClassSpecialization", Head(todo).d, I + 1, E)>>
                     \o Tail(todo)
  /\ UNCHANGED <<Tvars, specs, classSpecs, tState, ASTvars, IRvars, macros, filesToUncache,
                 contentCache, fileSizes, pending, diagnostics, Successful, pc, fault, rets>>

\* DeclReverter::VisitClassTemplateSpecializationDecl: the canonical
\* declaration of the specialization is removed from the set of its
\* template, then the declaration is visited as a record
VisitClassTemplateSpecializationDecl ==
  /\ Running("VisitClassTemplateSpecializationDecl")
  /\ classSpecs' = removeClassSpecialization(classSpecs, getFirstDecl(redeclLink, Head(todo).d))
  /\ todo' = RecordCalls(redeclLink, Head(todo).d) \o Tail(todo)
  /\ UNCHANGED <<Tvars, specs, tState, ASTvars, IRvars, macros, filesToUncache,
                 contentCache, fileSizes, pending, diagnostics, Successful, pc, fault, rets>>

(***************************************************************************)
(* The generated-code unlink.                                              *)
(***************************************************************************)
RECURSIVE IdsNewestFirst(_)
IdsNewestFirst(ids) ==
  IF ids = {} THEN <<>>
  ELSE LET m == CHOOSE k \in ids : \A h \in ids : h <= k
       IN <<m>> \o IdsNewestFirst(ids \ {m})

\* the use list of a global value (llvm::Value::use_begin .. use_end): the
\* newest use first
UseList(us, gv) == IdsNewestFirst({r.id : r \in {q \in us : q.target = gv}})

\* llvm::GlobalValue::eraseFromParent: the value leaves the module, and the
\* instructions of a function are destroyed with it
eraseFromParent(img, gv) ==
  [module |-> img.module \ {gv},
   uses |-> {r \in img.uses : r.user # gv}]

\* a removal that erases the caller of F and leaves F in the module
RemoveStaticInitCallerOnly(img, F) ==
  LET last == CHOOSE r \in img.uses :
                r.target = F /\ \A q \in img.uses : q.target = F => q.id >= r.id
  IN eraseFromParent(img, last.user)

\* DeclReverter::RemoveStaticInit(F) when its assertions hold or are compiled
\* out and F has a use: the caller of F is erased first, then F
RemoveStaticInit(img, F) ==
  LET last == CHOOSE r \in img.uses :
                r.target = F /\ \A q \in img.uses : q.target = F => q.id >= r.id
      caller == last.user
  IN eraseFromParent(eraseFromParent(img, caller), F)

\* The outcomes of one round of the loop over the collected uses in
\* MaybeRemoveDeclFromModule (lines 761-767).  A use whose instruction was
\* destroyed with its function is a dangling pointer: reading it is undefined,
\* the run crashes or goes on to the next use.  RemoveStaticInit asserts that
\* F has internal linkage and one use; with the assertions compiled out,
\* use_back() of an empty use list is undefined as well.
UseOutcomes(img, u) ==
  LET recs == {r \in img.uses : r.id = u}
      F == (CHOOSE r \in recs : TRUE).user
      nUses == Cardinality({r \in img.uses : r.target = F})
      same(f) == [module |-> img.module, uses |-> img.uses, pc |-> "running", fault |-> f]
      dead(f) == [module |-> img.module, uses |-> img.uses, pc |-> "aborted", fault |-> f]
  IN IF recs = {} THEN {dead("ub"), same("ub")}
     ELSE IF ~IsStaticInitName(F) THEN {same(fault)}
     ELSE IF ~ndebug /\ (~hasInternalLinkage(F) \/ nUses # 1) THEN {dead("assert")}
     ELSE IF nUses = 0
          THEN {dead("ub"),
                [module |-> eraseFromParent(img, F).module,
                 uses |-> eraseFromParent(img, F).uses, pc |-> "running", fault |-> "ub"]}
          ELSE {[module |-> RemoveStaticInit(img, F).module,
                 uses |-> RemoveStaticInit(img, F).uses, pc |-> "running", fault |-> fault]}

\* a lookup of the global value that does not look at the transaction
NamedValueAnyState(d, ctorType) ==
  IF LinkerName(d, ctorType) \in module THEN LinkerName(d, ctorType) ELSE Null

\* Module::getNamedValue(mangledName), when the transaction has a module and
\* is committed; Null otherwise
NamedValue(d, ctorType) ==
  IF tModule /\ tState = kCommitted /\ LinkerName(d, ctorType) \in module
  THEN LinkerName(d, ctorType)
  ELSE Null

\* the calls MaybeRemoveDeclFromModule makes once it found the global value
ModuleCalls(us, gv) ==
  [i \in DOMAIN UseList(us, gv) |-> Op("DropStaticInitUse", gv, Null, UseList(us, gv)[i])]
  \o <<Op("UpdateGlobalMapping", gv, Null, 0), Op("DropAndReplace", gv, Null, 0),
       Op("EraseFromParent", gv, Null, 0)>>

\* DeclReverter::MaybeRemoveDeclFromModule up to the collection of the uses
MaybeRemoveDeclFromModule ==
  /\ Running("MaybeRemoveDeclFromModule")
  /\ LET GV == NamedValue(Head(todo).d, Head(todo).x)
     IN todo' = IF GV = Null THEN Tail(todo) ELSE ModuleCalls(uses, GV) \o Tail(todo)
  /\ UNCHANGED <<Tvars, specs, classSpecs, tState, ASTvars, IRvars, macros, filesToUncache, contentCache, fileSizes,
                 pending, diagnostics, Successful, pc, fault, rets>>

\* MaybeRemoveDeclFromModule, one collected use: a use by an instruction of a
\* static initialization function removes that function (RemoveStaticInit)
DropStaticInitUse ==
  /\ Running("DropStaticInitUse")
  /\ \E o \in UseOutcomes([module |-> module, uses |-> uses], Head(todo).u) :
       /\ module' = o.module
       /\ uses' = o.uses
       /\ pc' = o.pc
       /\ fault' = o.fault
       /\ todo' = IF o.pc = "aborted" THEN todo ELSE Tail(todo)
  /\ UNCHANGED <<Tvars, specs, classSpecs, tState, ASTvars, mapped, macros, filesToUncache, contentCache, fileSizes,
                 pending, diagnostics, Successful, rets>>

\* MaybeRemoveDeclFromModule: m_EEngine->updateGlobalMapping(GV, 0)
UpdateGlobalMapping ==
  /\ Running("UpdateGlobalMapping")
  /\ mapped' = mapped \ {Head(todo).d}
  /\ todo' = Tail(todo)
  /\ UNCHANGED <<Tvars, specs, classSpecs, tState, ASTvars, module, uses, macros, filesToUncache,
                 contentCache, fileSizes, pending, diagnostics, Successful, pc, fault, rets>>

\* the value that replaces the uses of GV: a function of the same type that
\* is in no module, or an undefined value
Placeholder(gv) == IF IsFunction(gv) THEN "dummy" ELSE "undef"

\* a cleanup that severs the references of GV and replaces no use of it
DropOnly(us, gv) == {r \in us : r.user # gv}

\* MaybeRemoveDeclFromModule: GV->dropAllReferences(), then the remaining
\* uses of GV are replaced
DropAndReplaceResult(us, gv) ==
  LET dropped == {r \in us : r.user # gv}
  IN {IF r.target = gv THEN [r EXCEPT !.target = Placeholder(gv)] ELSE r : r \in dropped}

DropAndReplace ==
  /\ Running("DropAndReplace")
  /\ uses' = DropAndReplaceResult(uses, Head(todo).d)
  /\ todo' = Tail(todo)
  /\ UNCHANGED <<Tvars, specs, classSpecs, tState, ASTvars, module, mapped, macros, filesToUncache,
                 contentCache, fileSizes, pending, diagnostics, Successful, pc, fault, rets>>

\* MaybeRemoveDeclFromModule: GV->eraseFromParent()
EraseFromParent ==
  /\ Running("EraseFromParent")
  /\ LET r == eraseFromParent([module |-> module, uses |-> uses], Head(todo).d)
     IN module' = r.module /\ uses' = r.uses
  /\ todo' = Tail(todo)
  /\ UNCHANGED <<Tvars, specs, classSpecs, tState, ASTvars, mapped, macros, filesToUncache, contentCache, fileSizes,
                 pending, diagnostics, Successful, pc, fault, rets>>

(***************************************************************************)
(* Macros, and the end of RevertTransaction.                               *)
(***************************************************************************)
\* Preprocessor::removeMacro(II, MD)
removeMacro(ms, ii, md) == ms \ {<<ii, md>>}

\* DeclReverter::VisitMacro, the check that the identifier is in the
\* preprocessor (compiled out by NDEBUG)
ExistsInPP(ms, m) == \E p \in ms : p[1] = MacroII(m)

\* DeclReverter::VisitMacro: the macro table after the call and the value
\* returned
VisitMacroResult(ms, m) ==
  IF ~getMacroInfo(m)
  THEN [macros |-> ms, ret |-> FALSE]
  ELSE [macros |-> removeMacro(ms, MacroII(m), m), ret |-> TRUE]

\* DeclReverter::RevertMacro
RevertMacro ==
  /\ Running("RevertMacro")
  /\ LET m == Head(todo).x
         r == VisitMacroResult(macros, m)
     IN /\ filesToUncache' = CollectFilesToUncache(filesToUncache, FileOfMacro(m))
        /\ IF ~ndebug /\ ~ExistsInPP(macros, m)
           THEN /\ pc' = "aborted" /\ fault' = "assert" /\ todo' = todo
                /\ UNCHANGED <<macros, Successful>>
           ELSE /\ pc' = pc /\ fault' = fault /\ todo' = Tail(todo)
                /\ macros' = r.macros
                /\ Successful' = (r.ret /\ Successful)
  /\ UNCHANGED <<Tvars, specs, classSpecs, tState, ASTvars, IRvars, contentCache, fileSizes, pending, diagnostics, rets>>

\* ASTNodeEraser::RevertTransaction after the loops: the diagnostics are
\* reset and the state of the transaction is set
Finish ==
  /\ Running("Finish")
  /\ diagnostics' = FALSE
  /\ tState' = FinalState(Successful)
  /\ todo' = Tail(todo)
  /\ UNCHANGED <<Tvars, specs, classSpecs, ASTvars, IRvars, macros, filesToUncache, contentCache, fileSizes, pending,
                 Successful, pc, fault, rets>>

\* DeclReverter::~DeclReverter, the cache entries left after the flush
Uncache(cache, files) == cache \ {f \in files : HasFileEntry(f)}

\* a flush that leaves the recorded sizes alone
keepFileEntry(sizes, files) == sizes

\* FileManager::modifyFileEntry(entry, 0, 0) for the flushed files
modifyFileEntry(sizes, files) == sizes \ {f \in files : HasFileEntry(f)}

\* DeclReverter::~DeclReverter runs as RevertTransaction returns Successful
Destructor ==
  /\ Running("Destructor")
  /\ contentCache' = Uncache(contentCache, filesToUncache)
  /\ fileSizes' = modifyFileEntry(fileSizes, filesToUncache)
  /\ pending' = FALSE
  /\ rets' = Append(rets, Successful)
  /\ pc' = "idle"
  /\ todo' = Tail(todo)
  /\ UNCHANGED <<Tvars, specs, classSpecs, tState, ASTvars, IRvars, macros, filesToUncache, diagnostics,
                 Successful, fault>>

Next ==
  \/ RevertTransaction
  \/ RevertDecl
  \/ AssertSuccessful
  \/ VisitDecl
  \/ VisitNamedDecl
  \/ VisitRedeclarable
  \/ VisitDeclContext
  \/ VisitFunctionTemplateDecl
  \/ VisitSpecialization
  \/ RemoveSpecialization
  \/ VisitClassTemplateDecl
  \/ VisitClassSpecialization
  \/ VisitClassTemplateSpecializationDecl
  \/ MaybeRemoveDeclFromModule
  \/ DropStaticInitUse
  \/ UpdateGlobalMapping
  \/ DropAndReplace
  \/ EraseFromParent
  \/ RevertMacro
  \/ Finish
  \/ Destructor

Spec == Init /\ [][Next]_vars

(***************************************************************************)
(* Vocabulary of the properties.                                           *)
(***************************************************************************)
\* the redeclaration chain d belongs to, walked from its most recent
\* declaration along the previous links, newest first
ChainOf(link, d) ==
  CollectPrevDecls(link, getMostRecentDecl(link, d), Null, NumDecls)

\* a declaration is erased once VisitDecl released it; an injected class
\* name is erased with the record that owns it
Erased(d) ==
  \/ d \in deallocated
  \/ isInjectedClassName(d) /\ getDeclContext(d) \in deallocated

\* the declaration, or the record that owns it, has a pending call
InProgress(d) ==
  \E i \in DOMAIN todo :
    \/ todo[i].d = d
    \/ isInjectedClassName(d) /\ todo[i].d = getDeclContext(d)

\* the declarations bound to the name of d in the symbol table of its
\* nearest enclosing context that is not transparent
Bindings(d) ==
  LET Map == getPrimaryContext(LookupContext(getDeclContext(d)))
  IN IF HasLookupMap(Map) /\ getDeclName(d) \in Names
     THEN Range(lookup[Map][getDeclName(d)].v)
     ELSE {}

\* the declarations RevertTransaction is asked to erase, newest last
TopLevelDecls ==
  Flatten([i \in DOMAIN tDecls |->
    IF tDecls[i].m_Call = kCCIHandleTopLevelDecl THEN tDecls[i].m_DGR ELSE <<>>])

\* every declaration of the transaction: those of all entries and the
\* declarations nested in them
TransactionDecls ==
  UNION {Range(tDecls[i].m_DGR) \cup UNION {Descendants(d) : d \in Range(tDecls[i].m_DGR)} :
           i \in DOMAIN tDecls}

(***************************************************************************)
(* C1: after RevertTransaction(T) returned, the state of T is RolledBack   *)
(* exactly if the call returned true and RolledBackWithErrors exactly if   *)
(* it returned false; once a call returned, T is never Collecting or       *)
(* Committed.                                                              *)
(***************************************************************************)
RevertSetsState ==
  /\ rets # <<>> => tState \in {kRolledBack, kRolledBackWithErrors}
  /\ (pc = "idle" /\ rets # <<>>) =>
       /\ (tState = kRolledBack) <=> rets[Len(rets)]
       /\ (tState = kRolledBackWithErrors) <=> ~rets[Len(rets)]

RevertReturnedFalse ==
  pc = "idle" /\ Len(rets) = 1 /\ ~rets[1] /\ tState = kRolledBackWithErrors

(***************************************************************************)
(* C2: for every declaration D with an identifier that a revert erased,    *)
(* the symbol table of D's nearest enclosing context that is not           *)
(* transparent never binds D's name to D; what the name is still bound to  *)
(* is a declaration other than D that has not been erased (it may be       *)
(* older or newer than D).                                                 *)
(***************************************************************************)
ErasedNameNotBound ==
  \A D \in deallocated :
    getIdentifier(D) # Null =>
      \A e \in Bindings(D) : e # D /\ ~Erased(e)

\* a middle redeclaration was erased and its name is still bound to the
\* newest one
MiddleErasedNewerBound ==
  /\ pc = "idle" /\ rets # <<>>
  /\ \E i \in 2..(ChainLen - 1) :
       /\ XChain[i] \in deallocated
       /\ Bindings(XChain[i]) = {XChain[ChainLen]}

\* C2 as stated: what a name of an erased declaration D is still bound to
\* is surviving and older than D
ErasedNameBoundToOlderOnly ==
  \A D \in deallocated :
    getIdentifier(D) # Null =>
      /\ D \notin Bindings(D)
      /\ \A e \in Bindings(D) : ~Erased(e) /\ AcceptPos(e) < AcceptPos(D)

(***************************************************************************)
(* C3: the step of VisitRedeclarable that unlinks R from a redeclaration   *)
(* chain of K nodes (R the newest, a middle or the oldest one) leaves a    *)
(* chain of exactly the other K-1 nodes in their original order: walking   *)
(* the previous links from the newest survivor visits them in that order   *)
(* and ends at none after the oldest, so there is no cycle, and the most   *)
(* recent declaration of every survivor is the newest survivor.  No link   *)
(* of a declaration outside the chain changes.                             *)
(***************************************************************************)
UnlinkKeepsOrder ==
  [][(Running("VisitRedeclarable")
      /\ Head(todo).d \in Range(ChainOf(redeclLink, Head(todo).d))) =>
       LET R == Head(todo).d
           before == ChainOf(redeclLink, R)
           IsSurvivor(e) == e # R
           after == SelectSeq(before, IsSurvivor)
       IN /\ Len(after) = Len(before) - 1
          /\ \A d \in DeclIds \ Range(before) : redeclLink'[d] = redeclLink[d]
          /\ after # <<>> =>
               /\ \A e \in Range(after) :
                    /\ getMostRecentDecl(redeclLink', e) = after[1]
                    /\ ChainOf(redeclLink', e) = after
               /\ \A i \in 1..(Len(after) - 1) :
                    getPreviousDecl(redeclLink', after[i]) = after[i + 1]
               /\ getPreviousDecl(redeclLink', after[Len(after)]) = Null]_vars

\* a middle node was unlinked: its newer neighbour now follows its older one
MiddleUnlinked ==
  \E i \in 2..(ChainLen - 1) :
    /\ getPreviousDecl(redeclLink, XChain[i + 1]) = XChain[i - 1]
    /\ XChain[i] \notin Range(ChainOf(redeclLink, XChain[1]))
    /\ Len(ChainOf(redeclLink, XChain[1])) = ChainLen - 1

(***************************************************************************)
(* C4: in every state of a revert, so after each of its erase steps, the   *)
(* redeclaration chain of every declaration that is not erased is          *)
(* connected: its head is not erased, the walk from the head along the     *)
(* previous links visits only declarations that are not erased, visits no  *)
(* declaration twice and ends at a node whose previous link is none, and   *)
(* the declaration itself is on that walk unless it is being reverted.  No *)
(* previous link of a declaration that is not erased targets an erased     *)
(* one.  A declaration whose link is the latest-link to itself is alone in *)
(* its chain, for which all of this holds.                                 *)
(***************************************************************************)
ChainsStayConnected ==
  [](\A d \in {e \in DeclIds : redeclLink[e] # LatestDeclLink(e)} :
       ~Erased(d) =>
         \A chain \in {ChainOf(redeclLink, d)} :
            /\ getPreviousDecl(redeclLink, d) # Null =>
                 ~Erased(getPreviousDecl(redeclLink, d))
            /\ chain # <<>>
            /\ \A e \in Range(chain) : ~Erased(e)
            /\ Cardinality(Range(chain)) = Len(chain)
            /\ getPreviousDecl(redeclLink, chain[Len(chain)]) = Null
            /\ d \in Range(chain) \/ InProgress(d))

\* in the middle of a revert, a redeclaration has been erased and the
\* others are still chained
ErasedMidRevert ==
  /\ pc = "running"
  /\ \E i \in 1..ChainLen :
       /\ XChain[i] \in deallocated
       /\ Len(ChainOf(redeclLink, XChain[IF i = 1 THEN 2 ELSE 1])) = ChainLen - 1

\* the declarations that own generated code
OwnsCode(d) ==
  Kind(d) \in {"Var", "Function", "CXXConstructor", "CXXDestructor"}

\* the linker names of a declaration: one for each construction variant of
\* a constructor
LinkerNames(d) ==
  IF Kind(d) = "CXXConstructor"
  THEN {LinkerName(d, ct) : ct \in CtorTypes}
  ELSE {LinkerName(d, Null)}

(***************************************************************************)
(* C5: while a committed transaction with an executable image is reverted, *)
(* once a declaration that owns generated code (a variable that is not a   *)
(* parameter, a function, a constructor in each of its three variants, a   *)
(* destructor) is erased, the image holds no artifact under its linker     *)
(* name.                                                                   *)
(***************************************************************************)
ErasedOwnsNoArtifact ==
  (tModule /\ tState = kCommitted) =>
    \A d \in deallocated : OwnsCode(d) => LinkerNames(d) \cap module = {}

(***************************************************************************)
(* C6: no step of a revert deletes an artifact from the executable image   *)
(* (the artifact of the declaration, a static-init glue function deleted   *)
(* with it) while the execution engine still maps it to an address: the    *)
(* mapping is removed before the deletion.                                 *)
(***************************************************************************)
UnmappedBeforeDeleted ==
  [][\A gv \in module \ module' : gv \notin mapped]_vars

(***************************************************************************)
(* C7: no namespace is detached from its owner's child list, the step      *)
(* that also removes its name from the symbol table and releases it,       *)
(* while a declaration nested in it, directly or in a nested container,    *)
(* has not been erased.                                                    *)
(***************************************************************************)
ChildrenBeforeNamespace ==
  \A ns \in DeclIds :
    (/\ Kind(ns) = "Namespace"
     /\ \/ ~containsDecl(decls, getLexicalDeclContext(ns), ns)
        \/ ns \in deallocated
        \/ ns \notin Bindings(ns)) =>
      \A c \in Descendants(ns) : Erased(c)

\* the namespace and the declarations nested in it and in its record are
\* erased
NamespaceErased ==
  /\ "N" \in deallocated
  /\ ~containsDecl(decls, TU, "N")
  /\ {"n", "R", "ctor", "dtor"} \subseteq deallocated

(***************************************************************************)
(* C8: once a RevertTransaction call on the transaction has returned, no   *)
(* step of a later call changes the symbol tables, the redeclaration       *)
(* chains, the child lists, the specialization set, the macro table or the *)
(* executable image and its address mapping: the second call leaves them   *)
(* as the first call left them.                                            *)
(***************************************************************************)
SecondRevertChangesNothing ==
  [][Len(rets) >= 1 =>
       /\ UNCHANGED <<lookup, redeclLink, decls, macros, module, uses, mapped>>
       /\ getSpecializations(specs') = getSpecializations(specs)]_vars

(***************************************************************************)
(* C9: RevertMacro on a record whose macro is defined removes the          *)
(* (identifier, directive) pair from the macro table and returns true, so  *)
(* that it leaves Successful as it is; RevertMacro on that record when the *)
(* pair is no longer in the table returns false, so that Successful        *)
(* becomes false, leaves the macro table unchanged and does not abort.     *)
(***************************************************************************)
MacroRevertedOnce ==
  [][(Running("RevertMacro") /\ getMacroInfo(Head(todo).x)) =>
       LET m == Head(todo).x
       IN IF <<MacroII(m), m>> \in macros
          THEN /\ macros' = macros \ {<<MacroII(m), m>>}
               /\ Successful' = Successful
               /\ pc' = "running"
          ELSE /\ macros' = macros
               /\ Successful' = FALSE
               /\ pc' = "running"]_vars

\* the macro record has been reverted by the running revert: its pair left
\* the macro table or, for a record without MacroInfo, the call failed
MacroProcessed(m) ==
  IF getMacroInfo(m) THEN <<MacroII(m), m>> \notin macros ELSE ~Successful

(***************************************************************************)
(* C10: RevertTransaction erases the declarations it was given newest      *)
(* first.  Among the declarations of the groups recorded as top-level      *)
(* declarations, whenever one is erased every one recorded after it, in a  *)
(* later group or later in its group, has been erased already; a macro is  *)
(* reverted only after all of them have been erased, and only after every  *)
(* macro recorded after it has been reverted.                              *)
(***************************************************************************)
TopLevelErasedNewestFirst ==
  \A top \in {TopLevelDecls} :
    /\ \A i \in DOMAIN top : \A j \in DOMAIN top :
         (i < j /\ top[i] \in deallocated) => top[j] \in deallocated
    /\ Len(rets) = 0 =>
         \A i \in DOMAIN tMacros :
           (getMacroInfo(tMacros[i]) /\ MacroProcessed(tMacros[i])) =>
             /\ \A d \in Range(top) : d \in deallocated
             /\ \A j \in DOMAIN tMacros : i < j => MacroProcessed(tMacros[j])

\* in the middle of a revert the newer of two top-level declarations is
\* erased and the older is not
NewerErasedFirst ==
  /\ pc = "running"
  /\ \E i \in DOMAIN TopLevelDecls : \E j \in DOMAIN TopLevelDecls :
       i < j /\ TopLevelDecls[j] \in deallocated /\ TopLevelDecls[i] \notin deallocated

\* C10 as stated: whenever any declaration of the transaction is erased,
\* every declaration of the transaction accepted after it has been erased
AllErasedNewestFirst ==
  \A d \in TransactionDecls : \A e \in TransactionDecls :
    (d \in deallocated /\ AcceptPos(d) < AcceptPos(e)) => Erased(e)

(***************************************************************************)
(* C11: a failing item does not stop RevertTransaction.  The check that    *)
(* follows an item never ends the run, and when the call has returned      *)
(* every recorded top-level declaration has been erased, every macro       *)
(* record has been reverted, and the value returned is the conjunction of  *)
(* the results of the items: true exactly if no macro record failed (the   *)
(* visit of a declaration always reports success).                         *)
(***************************************************************************)
FailureDoesNotStop ==
  /\ ~(pc = "aborted" /\ Head(todo).op = "AssertSuccessful")
  /\ (pc = "idle" /\ rets # <<>>) =>
       /\ \A d \in Range(TopLevelDecls) : d \in deallocated
       /\ \A m \in Range(tMacros) : getMacroInfo(m) => <<MacroII(m), m>> \notin macros
       /\ rets[Len(rets)] = (\A m \in Range(tMacros) : getMacroInfo(m))

(***************************************************************************)
(* C12: no file-cache entry is reset while declarations or macros are      *)
(* still being erased.  The cache changes only in the one step that ends   *)
(* the call, when no item and no visit is left to run; that step resets    *)
(* only accumulated files, each of them in that single step however many   *)
(* erased declarations came from it.                                       *)
(***************************************************************************)
FlushedOnceAtEnd ==
  [][contentCache' # contentCache =>
       /\ Running("Destructor")
       /\ Len(todo) = 1
       /\ pc' = "idle"
       /\ contentCache' \subseteq contentCache
       /\ (contentCache \ contentCache') \subseteq filesToUncache]_vars

\* a revert has returned after erasing two declarations of the same file,
\* and the cache entry of that file is reset
SharedFileFlushed ==
  /\ pc = "idle"
  /\ \E f \in Files \ contentCache :
       Cardinality({d \in deallocated : FileOfDecl(d) = f}) >= 2

(***************************************************************************)
(* C13: only files whose identifier is valid and at or after the           *)
(* transaction's buffer are ever accumulated, and the cache entry of a     *)
(* file before that buffer is never reset.                                 *)
(***************************************************************************)
OnlyTransactionFilesUncached ==
  /\ \A f \in filesToUncache : f # 0 /\ f >= getBufferFID
  /\ \A f \in Files : (f # 0 /\ f < getBufferFID) => f \in contentCache

\* a revert has returned after erasing a declaration of a file before the
\* buffer and a declaration without a valid file, and flushed a later file
OlderFileDeclErased ==
  /\ pc = "idle"
  /\ \E d \in deallocated : FileOfDecl(d) # 0 /\ FileOfDecl(d) < getBufferFID
  /\ \E d \in deallocated : FileOfDecl(d) = 0
  /\ \E f \in filesToUncache : f \notin contentCache

\* the files at or after the transaction's buffer that contributed an
\* erased declaration or a reverted macro
ContributingFiles ==
  {f \in Files : /\ f # 0 /\ f >= getBufferFID
                 /\ \/ \E d \in deallocated : FileOfDecl(d) = f
                    \/ \E m \in Range(tMacros) : FileOfMacro(m) = f}

(***************************************************************************)
(* C14 as stated: after RevertTransaction has returned, every file at or   *)
(* after the transaction's buffer that contributed an erased declaration   *)
(* or macro has its cached content and its recorded size reset.            *)
(***************************************************************************)
AccumulatedFilesReset ==
  (pc = "idle" /\ rets # <<>>) =>
    \A f \in ContributingFiles : f \notin contentCache /\ f \notin fileSizes

(***************************************************************************)
(* C14 amended: after RevertTransaction has returned, every such file that *)
(* is backed by a file entry has its cached content and its recorded size  *)
(* reset, and every such file has been accumulated; a buffer without a     *)
(* file entry keeps its cached content.                                    *)
(***************************************************************************)
FilesWithEntryReset ==
  (pc = "idle" /\ rets # <<>>) =>
    /\ ContributingFiles \subseteq filesToUncache
    /\ \A f \in ContributingFiles :
         IF HasFileEntry(f) THEN f \notin contentCache /\ f \notin fileSizes
         ELSE f \in contentCache

\* a revert has returned after accumulating a file with a file entry and
\* the buffer, which has none
BufferAndFileAccumulated ==
  /\ pc = "idle" /\ rets # <<>>
  /\ \E f \in ContributingFiles : HasFileEntry(f)
  /\ \E f \in ContributingFiles : ~HasFileEntry(f)

(***************************************************************************)
(* C15: removing the specialization S from a template's set leaves the     *)
(* previous set minus S.  In every step that removes a canonical           *)
(* specialization from the set of the function template or of the class    *)
(* template, every other specialization of the set before the step is in   *)
(* the set after it, once, S is not, and nothing else is.                  *)
(***************************************************************************)
RemovalLeavesTheOthers ==
  [][/\ (Running("removeSpecialization") /\ isCanonicalDecl(redeclLink, Head(todo).d)) =>
          LET S == Head(todo).d
              before == getSpecializations(specs)
              after == getSpecializations(specs')
          IN /\ Range(after) = Range(before) \ {S}
             /\ Cardinality(Range(after)) = Len(after)
     /\ Running("VisitClassTemplateSpecializationDecl") =>
          LET S == getFirstDecl(redeclLink, Head(todo).d)
              before == getSpecializations(classSpecs)
              after == getSpecializations(classSpecs')
          IN /\ Range(after) = Range(before) \ {S}
             /\ Cardinality(Range(after)) = Len(after)]_vars

\* one specialization of the class template has been removed from its set
\* and erased while the set of the function template is complete, or one
\* of the function template while the set of the class template is
\* complete; the set it left still holds all the others
OneSpecializationRemoved ==
  \E S \in SpecSet \cup ClassSpecSet :
    /\ S \in deallocated
    /\ Range(getSpecializations(specs)) \cup Range(getSpecializations(classSpecs))
         = (SpecSet \cup ClassSpecSet) \ {S}

\* the number of name entries the translation unit's table has lost
EntriesRemoved ==
  Cardinality({nm \in Names : InitLookup[TU][nm] # Absent})
  - Cardinality({nm \in Names : lookup[TU][nm] # Absent})

\* no table holds an entry whose list is null or an empty vector
NoEmptyEntry ==
  \A dc \in DOMAIN lookup : \A e \in Range(lookup[dc]) :
    ~(e.st = "null" \/ (e.st = "vector" /\ e.v = <<>>))

(***************************************************************************)
(* C16: a revert of N top-level named declarations (and no macro) returns  *)
(* true and removes exactly N name entries from the table when none of the *)
(* N names had an older binding, fewer when one had, and leaves no entry   *)
(* with an empty list.                                                     *)
(***************************************************************************)
EntriesReducedByN ==
  (pc = "idle" /\ rets # <<>> /\ tMacros = <<>>) =>
    LET N == Len(TopLevelDecls)
        Older(d) == \E e \in Range(InitDecls(TU)) :
                      /\ e # d
                      /\ getDeclName(e) = getDeclName(d)
                      /\ AcceptPos(e) < AcceptPos(d)
    IN /\ rets[Len(rets)]
       /\ IF \A d \in Range(TopLevelDecls) : ~Older(d)
          THEN EntriesRemoved = N
          ELSE EntriesRemoved < N
       /\ NoEmptyEntry

\* the declaration is as it was before the revert: allocated, in the same
\* declaration lists with the same children and the same chain link, bound
\* in the same entries, registered in its template, its artifacts in place
Untouched(d) ==
  /\ d \notin deallocated
  /\ redeclLink[d] = InitRedeclLink[d]
  /\ \A dc \in Contexts : (d \in Range(decls[dc])) = (d \in Range(InitDecls(dc)))
  /\ d \in Contexts => decls[d] = InitDecls(d)
  /\ \A dc \in DOMAIN lookup, nm \in Names :
       (d \in Range(lookup[dc][nm].v)) = (d \in Range(InitLookup[dc][nm].v))
  /\ d \in SpecSet => d \in Range(getSpecializations(specs))
  /\ OwnsCode(d) => (LinkerNames(d) \cap Artifacts) \subseteq (module \cap mapped)

\* the declarations the loop of RevertTransaction reaches from the entries
\* of HandleTopLevelDecl: their members, the declarations nested in them
\* and the templated declaration and the specializations of a template,
\* with the redeclarations of the specializations
ReachedFromTopLevel ==
  UNION {top \cup UNION {Descendants(d) : d \in top}
             \cup UNION {{getTemplatedDecl(d)} \cup Descendants(getTemplatedDecl(d)) \cup SpecSet
                           \cup {"ir"} :
                           d \in {t \in top : Kind(t) = "FunctionTemplate"}}
             \cup UNION {{getTemplatedDecl(d)} \cup ClassSpecSet \cup {"cr"} :
                           d \in {t \in top : Kind(t) = "ClassTemplate"}} :
         top \in {Range(TopLevelDecls)}}

(***************************************************************************)
(* C17 as stated: the declarations of the entries recorded under another   *)
(* classification than HandleTopLevelDecl are left unchanged in the        *)
(* declaration graph, the symbol table and the executable image.           *)
(***************************************************************************)
OtherEntriesUntouched ==
  \A i \in DOMAIN tDecls :
    tDecls[i].m_Call # kCCIHandleTopLevelDecl =>
      \A d \in Range(tDecls[i].m_DGR) : Untouched(d)

(***************************************************************************)
(* C17 amended: a revert erases only declarations reached from the entries *)
(* of HandleTopLevelDecl, and a declaration of an entry recorded under     *)
(* another classification is left unchanged unless it is also reached      *)
(* from such an entry.                                                     *)
(***************************************************************************)
OnlyTopLevelEntriesErased ==
  [](\A reached \in {ReachedFromTopLevel} :
       /\ deallocated \subseteq reached
       /\ \A i \in DOMAIN tDecls :
            tDecls[i].m_Call # kCCIHandleTopLevelDecl =>
              \A d \in Range(tDecls[i].m_DGR) : d \notin reached => Untouched(d))

\* a revert has returned that erased declarations and skipped the entry of
\* an implicit instantiation, whose declaration is still registered
InstantiationEntrySkipped ==
  /\ pc = "idle" /\ rets # <<>>
  /\ deallocated # {}
  /\ \E i \in DOMAIN tDecls :
       /\ tDecls[i].m_Call = kCCIHandleCXXImplicitFunctionInstantiation
       /\ \A d \in Range(tDecls[i].m_DGR) : d \notin ReachedFromTopLevel /\ Untouched(d)

(***************************************************************************)
(* C18: the generated-code unlink changes nothing and reports no error     *)
(* when the transaction has no executable image, or is not Committed, or   *)
(* the image holds no artifact of the computed linker name.  Such a call   *)
(* returns at once: it starts no work on the image, leaves the image, the  *)
(* uses and the address mappings as they are, does not abort and does not  *)
(* turn the result to failure; and no step changes the image or the        *)
(* mappings unless the transaction has an image and is Committed.          *)
(***************************************************************************)
UnlinkSkipsWithoutCode ==
  [][/\ (/\ Running("MaybeRemoveDeclFromModule")
         /\ \/ ~tModule
            \/ tState # kCommitted
            \/ LinkerName(Head(todo).d, Head(todo).x) \notin module)
        => /\ todo' = Tail(todo)
           /\ UNCHANGED <<module, uses, mapped, Successful, pc, fault>>
     /\ (module' # module \/ uses' # uses \/ mapped' # mapped)
        => (tModule /\ tState = kCommitted)]_vars

\* a transaction that is not Committed is being reverted: a declaration
\* with an artifact in the image is erased and the image is as it was
UnlinkSkippedNotCommitted ==
  /\ pc = "running"
  /\ tModule /\ tState = kCollecting
  /\ \E d \in deallocated : OwnsCode(d) /\ LinkerNames(d) \cap module # {}
  /\ module = Artifacts /\ mapped = Artifacts /\ uses = InitUses

(***************************************************************************)
(* C19: for a namespace, a tag and a function, the unlink of the           *)
(* container from its redeclaration chain and the removal of its name      *)
(* start only when every declaration directly nested in the container has  *)
(* been erased.                                                            *)
(***************************************************************************)
ChildrenBeforeContainerUnlink ==
  (/\ pc = "running"
   /\ todo # <<>>
   /\ Head(todo).op \in {"VisitRedeclarable", "VisitNamedDecl"}
   /\ Kind(Head(todo).d) \in {"Namespace", "Enum", "CXXRecord", "Function"}) =>
    \A c \in Range(InitDecls(Head(todo).d)) : Erased(c)

(***************************************************************************)
(* C19 amended: for a function, the unlink from its redeclaration chain    *)
(* and the removal of its name start only when every declaration directly  *)
(* nested in it has been erased.  For a namespace and a tag the removal of *)
(* the name starts only when every directly nested declaration but the     *)
(* injected class name has been erased, while the unlink from the chain    *)
(* runs first, before any nested declaration is erased.                    *)
(***************************************************************************)
ChildrenBeforeContainerName ==
  (pc = "running" /\ todo # <<>>) =>
    LET op == Head(todo).op
        d == Head(todo).d
        children == {c \in Range(InitDecls(d)) : ~isInjectedClassName(c)}
    IN /\ (op \in {"VisitRedeclarable", "VisitNamedDecl"} /\ Kind(d) = "Function") =>
            children \subseteq deallocated
       /\ (op = "VisitNamedDecl" /\ Kind(d) \in {"Namespace", "Enum", "CXXRecord"}) =>
            children \subseteq deallocated
       /\ (/\ op = "VisitRedeclarable"
           /\ Kind(d) \in {"Namespace", "Enum", "CXXRecord"}
           /\ Len(rets) = 0) =>
            children \cap deallocated = {}

\* the erase of a function with nested declarations is about to unlink it
\* from its chain, and its parameter and locals are erased
FunctionChildrenErasedFirst ==
  /\ pc = "running" /\ todo # <<>>
  /\ Head(todo).op = "VisitRedeclarable"
  /\ Kind(Head(todo).d) = "Function"
  /\ InitDecls(Head(todo).d) # <<>>
  /\ Range(InitDecls(Head(todo).d)) \subseteq deallocated

(***************************************************************************)
(* C20: the erase of a function or class template erases every             *)
(* specialization that was in its set when the erase began before the      *)
(* template is unlinked from its chain and before its templated            *)
(* declaration is erased, and leaves the set empty: in the first revert,   *)
(* once the unlink of the template is due or the template or its templated *)
(* declaration is erased, all its specializations are erased and its set   *)
(* has no element.                                                         *)
(***************************************************************************)
TemplateErasesItsSpecializations ==
  Len(rets) = 0 =>
    \A T \in {"FT", "CT"} :
      (\/ T \in deallocated
       \/ getTemplatedDecl(T) \in deallocated
       \/ (pc = "running" /\ todo # <<>> /\ Head(todo).op = "VisitRedeclarable"
           /\ Head(todo).d = T)) =>
        /\ (IF T = "FT" THEN SpecSet ELSE ClassSpecSet) \subseteq deallocated
        /\ (IF T = "FT" THEN specs ELSE classSpecs).size = 0

\* the declarations that were older redeclarations of d when the transaction
\* was accepted and have not been erased, newest first
OlderSurvivors(d) ==
  LET IsOlderSurvivor(e) == AcceptPos(e) < AcceptPos(d) /\ ~Erased(e)
  IN SelectSeq(ChainOf(InitRedeclLink, d), IsOlderSurvivor)

\* the scope d's name is bound in: the nearest enclosing context that is not
\* transparent
BindingScope(d) == getPrimaryContext(LookupContext(getDeclContext(d)))

(***************************************************************************)
(* C21: once a revert has returned, for every erased declaration D with an *)
(* identifier that was bound in the symbol table of its scope (the nearest *)
(* enclosing context that is not transparent) and of which older           *)
(* redeclarations survive, the name of D is bound in that scope to the     *)
(* newest surviving redeclaration, exactly once, and to no other           *)
(* redeclaration of the chain; this also when D is declared in a           *)
(* transparent context.                                                    *)
(***************************************************************************)
BoundToNewestSurvivor ==
  (pc = "idle" /\ rets # <<>>) =>
    \A D \in deallocated :
      \A older \in {OlderSurvivors(D)} :
        (/\ getIdentifier(D) # Null
         /\ HasLookupMap(BindingScope(D))
         /\ D \in Range(InitLookup[BindingScope(D)][getDeclName(D)].v)
         /\ older # <<>>) =>
          \A bound \in {lookup[BindingScope(D)][getDeclName(D)].v} :
            /\ Cardinality({k \in DOMAIN bound : bound[k] = older[1]}) = 1
            /\ \A k \in DOMAIN bound :
                 bound[k] \in Range(ChainOf(InitRedeclLink, D)) => bound[k] = older[1]

\* the static initialization functions with an instruction that uses gv
GlueUsersOf(us, gv) == {r.user : r \in {q \in us : q.target = gv /\ IsStaticInitName(q.user)}}

GenuineUses(us, gv) == {r \in us : r.target = gv /\ ~IsStaticInitName(r.user)}

(***************************************************************************)
(* C23: in a build with assertions, when the loop over the uses of an      *)
(* artifact is done and a use that does not come from a static             *)
(* initialization function remains, the unlink stops with a failed         *)
(* assertion and the artifact is not deleted: the next step aborts and     *)
(* leaves the image and the address mappings as they are.                  *)
(***************************************************************************)
GenuineUseAsserts ==
  [][(/\ ~ndebug
      /\ Running("UpdateGlobalMapping")
      /\ GenuineUses(uses, Head(todo).d) # {}) =>
       /\ pc' = "aborted"
       /\ fault' = "assert"
       /\ UNCHANGED <<module, uses, mapped>>]_vars

\* the values a rewritten use refers to: they are in no module
Placeholders == {Placeholder(gv) : gv \in Artifacts}

(***************************************************************************)
(* C24: no use in the executable image refers to a deleted artifact.  The  *)
(* step that severs and replaces turns every use of the artifact by        *)
(* another global value into a use of the placeholder, a function of the   *)
(* same type for a function and an undefined value for data; the step     *)
(* that deletes the artifact finds no use of it and no use by it; and      *)
(* after every step each use is an instruction of a function of the image  *)
(* and refers to a value of the image or to a placeholder.                 *)
(***************************************************************************)
NoUseOfDeleted ==
  [][/\ Running("DropAndReplace") =>
          \A r \in uses :
            (r.target = Head(todo).d /\ r.user # Head(todo).d) =>
              [r EXCEPT !.target = IF IsFunction(Head(todo).d) THEN "dummy" ELSE "undef"]
                \in uses'
     /\ Running("EraseFromParent") =>
          /\ \A r \in uses : r.target # Head(todo).d /\ r.user # Head(todo).d
          /\ Head(todo).d \notin module'
     /\ \A r \in uses' : r.user \in module' /\ r.target \in module' \cup Placeholders]_vars

\* the constructor and x are deleted; the function f that used them is in
\* the image and now uses a dummy function and an undefined value
UsesOfDeletedReplaced ==
  /\ {"x", "_ZN1N1RC1Ev"} \cap module = {}
  /\ "f" \in module
  /\ \E r \in uses : r.user = "f" /\ r.target = "dummy"
  /\ \E r \in uses : r.user = "f" /\ r.target = "undef"

(***************************************************************************)
(* C25: while a committed transaction with an executable image is          *)
(* reverted, from the moment the visit of a function that is not a         *)
(* constructor or destructor turns to the declarations of its body, and    *)
(* once the function is erased, the image holds no artifact under the      *)
(* function's linker name and, for every static local variable of its      *)
(* body, none under the function's linker name, ".", and the variable's    *)
(* linker name.                                                            *)
(***************************************************************************)
FunctionAndStaticsUnlinked ==
  (tModule /\ tState = kCommitted) =>
    \A fd \in deallocated \cup (IF Running("VisitDeclContext") THEN {Head(todo).d} ELSE {}) :
      Kind(fd) = "Function" =>
        /\ maybeMangleDeclName(fd, Null) \notin module
        /\ \A i \in DOMAIN StaticVarCollector(fd) :
             (maybeMangleDeclName(fd, Null) \o "." \o
              maybeMangleDeclName(StaticVarCollector(fd)[i], Null)) \notin module

\* the visit of f is about to erase the declarations of its body, f.s among
\* them, and the artifacts of f and of its static local are gone already
StaticLocalUnlinkedFirst ==
  /\ tModule /\ tState = kCommitted
  /\ Running("VisitDeclContext") /\ Head(todo).d = "f"
  /\ "s" \notin deallocated
  /\ {"f", "f.s"} \cap module = {}
  /\ {"f", "f.s"} \cap mapped = {}

\* C26: a generated-code unlink is only started for a declaration that is
\* no parameter and no variable of a dependent context, and when it starts
\* for a declaration that was not erased before, the declaration is a member
\* of its redeclaration chain and its unlink from the chain is still to
\* come: either that call and the removal of the name are pending, in this
\* order, or the visit of the declaration has not begun (a static local
\* unlinked by the visit of its function).
CodeUnlinkedWhileChainIntact ==
  [][(Running("MaybeRemoveDeclFromModule") /\ todo' # todo) =>
       \A d \in {Head(todo).d} :
         /\ Kind(d) # "ParmVar"
         /\ ~(Kind(d) = "Var" /\ isDependentContext(getDeclContext(d)))
         /\ d \notin deallocated =>
            /\ d \in Range(ChainOf(redeclLink, d))
            /\ \/ \E i \in DOMAIN todo : \E j \in DOMAIN todo :
                    /\ i < j
                    /\ todo[i].op = "VisitRedeclarable" /\ todo[i].d = d
                    /\ todo[j].op = "VisitNamedDecl" /\ todo[j].d = d
               \/ /\ \A i \in 2..Len(todo) : todo[i].d # d
                  /\ containsDecl(decls, getLexicalDeclContext(d), d)]_vars

\* the artifact of x is being unlinked for the newest redeclaration of x,
\* which is still the head of a chain of several declarations; the parameter
\* of f and the local variable of the template pattern were erased at other
\* moments without any unlink
NewestUnlinkedInsideChain ==
  /\ Running("UpdateGlobalMapping") /\ Head(todo).d = "x"
  /\ getMostRecentDecl(redeclLink, XChain[1]) = XChain[ChainLen]
  /\ Len(ChainOf(redeclLink, XChain[1])) >= 2
  /\ \E i \in DOMAIN todo :
       todo[i].op = "VisitRedeclarable" /\ todo[i].d = XChain[ChainLen]
  /\ XChain[ChainLen] \notin deallocated

\* C27: the visit of an injected class name changes nothing and reports no
\* failure; and once a record whose injected class name is its neighbour in
\* the redeclaration chain has been unlinked (its members are about to be
\* visited, or it is erased), no surviving declaration of the chain links to
\* the record or to the injected class name, and neither is met on the walk
\* from the newest declaration along the previous links.
RecordUnlinkedWithInjectedName ==
  /\ [][(Running("RevertDecl") /\ isInjectedClassName(Head(todo).d) /\ todo' # todo) =>
          /\ todo' = Tail(todo)
          /\ UNCHANGED <<Tvars, specs, classSpecs, tState, ASTvars, IRvars, macros,
                         filesToUncache, contentCache, fileSizes, pending, diagnostics,
                         Successful, pc, fault, rets>>]_vars
  /\ [](\A rd \in {d \in DeclIds : Kind(d) = "CXXRecord" /\ ~isInjectedClassName(d)} :
          \A c \in {i \in DeclIds : isInjectedClassName(i) /\ getDeclContext(i) = rd} :
            (/\ \/ getPreviousDecl(InitRedeclLink, rd) = c
                \/ getPreviousDecl(InitRedeclLink, c) = rd
             /\ \/ rd \in deallocated
                \/ Running("VisitDeclContext") /\ Head(todo).d = rd) =>
              \A s \in {d \in Range(ChainOf(InitRedeclLink, rd)) \ {rd, c} :
                          d \notin deallocated} :
                /\ redeclLink[s].next \notin {rd, c}
                /\ {rd, c} \cap Range(ChainOf(redeclLink, s)) = {})

\* the record S, whose injected class name was linked right before it, is
\* erased and S0 is alone in its chain; the record R, whose injected class
\* name was linked right after it, has just been unlinked with it and R2 is
\* alone in its chain
BothLayoutsUnlinked ==
  /\ "S" \in deallocated /\ "S0" \notin deallocated
  /\ redeclLink["S0"] = LatestDeclLink("S0")
  /\ Running("VisitDeclContext") /\ Head(todo).d = "R"
  /\ "R2" \notin deallocated
  /\ redeclLink["R2"] = LatestDeclLink("R2")

\* C28: no step of the visit of a declaration turns Successful to false,
\* only the revert of a macro record without a definition does; hence a
\* RevertTransaction that returned false, and a transaction left in
\* RolledBackWithErrors, had such a macro record.
OnlyMacrosFail ==
  /\ [][(Successful /\ ~Successful') =>
          (Running("RevertMacro") /\ ~getMacroInfo(Head(todo).x))]_vars
  /\ [](\A i \in DOMAIN rets :
          ~rets[i] => \E m \in Range(tMacros) : ~getMacroInfo(m))
  /\ [](tState = kRolledBackWithErrors => \E m \in Range(tMacros) : ~getMacroInfo(m))

\* a revert that erased a namespace with its variable, record, constructor
\* and destructor and a function with its parameter and locals, in a
\* transaction whose macros all have a definition, returned true
ManyKindsErasedAndTrue ==
  /\ pc = "idle" /\ rets = <<TRUE>>
  /\ tState = kRolledBack
  /\ {"N", "n", "R", "acc", "ctor", "dtor", "R2", "f", "p", "s", "l"} \subseteq deallocated
  /\ tMacros = <<"M1">>

\* C29: every collected use the loop of the generated-code unlink handles
\* is still in the image: its instruction was not destroyed with a static
\* initialization function that an earlier round of the same loop deleted.
GlueNeverAccessedAfterDeletion ==
  [][Running("DropStaticInitUse") =>
       \E r \in uses : r.id = Head(todo).u /\ r.user \in module]_vars

\* C30: an artifact that has left the image is the artifact of a
\* declaration of the transaction (an entry or a declaration nested in
\* one), a static initialization function that initializes only such
\* artifacts, or the caller of static initialization functions that are all
\* of that kind.
OnlyOwnArtifactsDeleted ==
  LET Own == UNION {LinkerNames(d) : d \in {e \in TransactionDecls : OwnsCode(e)}}
      UsedBy(g) == {r.target : r \in {q \in InitUses : q.user = g}}
      OwnGlue(g) == IsStaticInitName(g) /\ UsedBy(g) # {} /\ UsedBy(g) \subseteq Own
  IN \A gv \in Artifacts \ module :
       \/ gv \in Own
       \/ OwnGlue(gv)
       \/ /\ hasInternalLinkage(gv) /\ UsedBy(gv) # {}
          /\ \A g \in UsedBy(gv) : OwnGlue(g)

(***************************************************************************)
(* C31: the specialization set of a template keeps every specialization    *)
(* whose canonical declaration has not been erased: once a revert has      *)
(* returned, a specialization of the function template or of the class     *)
(* template whose canonical declaration is still allocated is still in     *)
(* the set of its template; in particular the erase of a later             *)
(* redeclaration of a specialization leaves it registered.                 *)
(***************************************************************************)
CanonicalSpecializationsStayRegistered ==
  pc = "idle" =>
    /\ \A s \in SpecSet :
         ~Erased(s) => s \in Range(getSpecializations(specs))
    /\ \A c \in ClassSpecSet :
         ~Erased(c) => c \in Range(getSpecializations(classSpecs))

=============================================================================
